---- MODULE Spec2Model ----
(***************************************************************************)
(* Forward / backward Gaussian-splat render pipeline of                    *)
(* crates/brush-render/src/render.rs.                                      *)
(*                                                                         *)
(* render.rs orchestrates the pipeline: it creates the buffers, picks the  *)
(* arguments of every kernel and submits the kernels in program order to   *)
(* one compute client (one queue: a kernel sees the writes of the kernels  *)
(* submitted before it).  The kernels themselves (WGSL shaders, the radix  *)
(* sort, the prefix sum) are not part of the Rust sources modelled here;   *)
(* they are modelled from the design description, sections 4.1 - 4.10.     *)
(*                                                                         *)
(* Numbers.  Transmittance and colour are exact fractions with denominator *)
(* TDen; opacity is a fraction with denominator AlphaDen.  Depth is an f32 *)
(* given by twice its real value (depth2) and by its bit pattern F32Bits,  *)
(* a pair <<high 16 bits, low 16 bits>>.                                   *)
(***************************************************************************)
EXTENDS Integers, Sequences, FiniteSets, TLC

VARIABLES
    \* ---- arguments of render_splats
    prims,            \* global id -> primitive (means, log_scales, quats, sh, opacity)
    img_size,         \* <<width, height>>
    sh_coeffs_dim,    \* sh_coeffs.shape.dims[1]
    raster_u32,       \* render_u32_buffer
    backend,          \* "plain" (PrimaryBackend) or "autodiff"
    tracked,          \* the inputs whose autodiff node requires a gradient
    \* ---- control
    pc,               \* next stage of the call
    pending,          \* ProjectSplats threads (global ids) that have not run yet
    dispatched,       \* kernels submitted so far, oldest first
    buffers,          \* device buffers created so far
    call_no,          \* 1 for the first call, 2 for the repeated call
    prev_img,         \* image of the first call (kept by the caller)
    \* ---- device state of the call
    num_visible,      \* uniforms.num_visible, the atomic visible counter
    sh_degree,        \* uniforms.sh_degree
    global_from_presort_gid,
    depths,
    global_from_compact_gid,
    projected_splats,
    num_tiles_hit,
    cum_tiles_hit,
    num_intersections,
    tile_id_from_isect,
    compact_gid_from_isect,
    tile_bins,
    out_img,
    final_index,
    raster_T,         \* per pixel: T after each walked splat (history of the walk)
    \* ---- autodiff
    bw_state,         \* GaussianBackwardState saved by prep.finish, or NoState
    bw_read,          \* what RasterizeBackwards read as the terminal index
    bw_walk,          \* per pixel: the splats RasterizeBackwards visited, in order
    v_output,         \* the image-space loss gradient consumed by backward
    grads,            \* gradient buffer name -> its rows, <<>> before it is created
    registered,       \* <<input, gradient buffer>> pairs given to grads.register
    \* ---- bookkeeping
    writes,           \* which stage had which buffer bound for writing, and how
    \* ---- a call on a large uniform scene, kept as counts (no per-slot arrays)
    cap,
    \* ---- pixel threads adding to one gradient accumulator
    atom,
    \* ---- brush-viewer: the scene panel, the train-message channel, train_loop
    train,
    \* ---- odyexp-viewer: the loading stream, the panels, the app context
    app

call_vars == << prims, img_size, sh_coeffs_dim, raster_u32, backend, tracked,
           pc, pending, dispatched, buffers, call_no, prev_img,
           num_visible, sh_degree, global_from_presort_gid, depths,
           global_from_compact_gid, projected_splats, num_tiles_hit,
           cum_tiles_hit, num_intersections, tile_id_from_isect,
           compact_gid_from_isect, tile_bins, out_img, final_index, raster_T,
           bw_state, bw_read, bw_walk, v_output, grads, registered, writes >>

\* The variables outside the render call.
aside == << cap, atom, train, app >>

vars == << call_vars, aside >>

not_cap == << call_vars, atom, train, app >>

not_atom == << call_vars, cap, train, app >>

not_train == << call_vars, cap, atom, app >>

not_app == << call_vars, cap, atom, train >>

inputs == << prims, img_size, sh_coeffs_dim, raster_u32, backend, tracked >>

device == << num_visible, sh_degree, global_from_presort_gid, depths,
             global_from_compact_gid, projected_splats, num_tiles_hit,
             cum_tiles_hit, num_intersections, tile_id_from_isect,
             compact_gid_from_isect, tile_bins, out_img, final_index, raster_T >>

backward == << v_output, grads, registered >>

----------------------------------------------------------------------------
(* Bounds of the model *)

MaxPoints == 3

MaxDiffPoints == 2

MaxEdgePoints == 3

MaxSideTiles == 8

MaxThreads == 3

MaxEvals == 1

MaxFrames == 2

(* Program constants *)

TILE_WIDTH == 16

DEPTH_SORT_BITS == 32

U32_BITS == 32

MAX_ISECT_GROUPS == 128

MAX_DISPATCH == 65535

TRAIN_CHANNEL_CAPACITY == 32

VIEW_CHANNEL_CAPACITY == 1

FPS == 24

AlphaDen == 2

T_EPS_INV == 10000

----------------------------------------------------------------------------
(* Small helpers *)

Min(a, b) == IF a < b THEN a ELSE b

Max(a, b) == IF a > b THEN a ELSE b

Clamp(x, lo, hi) == Max(lo, Min(x, hi))

RECURSIVE Pow(_, _)
Pow(b, e) == IF e = 0 THEN 1 ELSE b * Pow(b, e - 1)

div_ceil(a, b) == (a + b - 1) \div b

Range(f) == { f[i] : i \in DOMAIN f }

\* Content of a buffer element that create_tensor allocated and no kernel wrote.
Uninit == 0 - 1

\* Result of an operator whose code panics.
Panic == 0 - 2

\* A 32-bit word no kernel wrote.
UninitWord == <<Uninit, Uninit>>

NoState == [saved |-> FALSE]

\* No large scene is being rendered.
NoCap == [pc |-> "none"]

\* No accumulator is being added to.
NoAtom == [pc |-> "none"]

\* No training session is open.
NoTrain == [pc |-> "none"]

\* The viewer application is not running.
NoApp == [pc |-> "none"]

\* Nothing but the render call is going on.
OnlyCall == cap = NoCap /\ atom = NoAtom /\ train = NoTrain /\ app = NoApp

\* The gradient buffers of a backward pass, render.rs:505-507, 539-547, 573-575
GradNames ==
    {"v_xys_local", "v_conics", "v_colors", "v_coeffs", "v_opacities", "v_xys_global",
     "v_means", "v_scales", "v_quats"}

\* No gradient buffer exists before backward runs.
NoGrads == [b \in GradNames |-> <<>>]

TDen == Pow(AlphaDen, MaxPoints)


----------------------------------------------------------------------------
(* The inputs of a call *)

\* Bit pattern of the f32 whose real value is d2 / 2, as <<high half, low half>>:
\* -1.0 = 0xBF800000, 0.5 = 0x3F000000, 1.0 = 0x3F800000, 2.0 = 0x40000000.
F32Bits(d2) ==
    CASE d2 = 0 - 2 -> <<49024, 0>>
      [] d2 = 1     -> <<16128, 0>>
      [] d2 = 2     -> <<16256, 0>>
      [] d2 = 4     -> <<16384, 0>>

\* Twice the real value of the f32 with bit pattern w.
F32Value2(w) ==
    CASE w = <<49024, 0>> -> 0 - 2
      [] w = <<16128, 0>> -> 1
      [] w = <<16256, 0>> -> 2
      [] w = <<16384, 0>> -> 4

\* Bit pattern of a small non-negative i32 (a tile id), and back.
I32Bits(n) == <<0, n>>

I32Value(w) == w[2]

\* The primitives a scene is drawn from.  bbox is the screen-space footprint in
\* pixels, <<x0, y0, x1, y1>>, half-open; logit is the raw opacity.
PrimKinds ==
    { [depth2 |-> 2,     bbox |-> <<0, 0, 32, 16>>,       logit |-> 0,   colour |-> 1],
      [depth2 |-> 2,     bbox |-> <<0, 0, 8, 8>>,         logit |-> 0,   colour |-> 0],
      [depth2 |-> 1,     bbox |-> <<0, 0, 20, 20>>,       logit |-> 200, colour |-> 1],
      [depth2 |-> 0 - 2, bbox |-> <<0, 0, 16, 16>>,       logit |-> 0,   colour |-> 1],
      [depth2 |-> 4,     bbox |-> <<8, 16, 20, 20>>,      logit |-> 0,   colour |-> 1] }

ImgSizes == { <<0, 16>>, <<16, 16>>, <<20, 32>> }

ShDims == {1, 4, 5}

InputNames == {"means", "xy_dummy", "log_scales", "quats", "sh_coeffs", "raw_opacity"}

TrackedSets == { {}, {"means"}, InputNames }

num_points == Cardinality(DOMAIN prims)

total_splats == num_points

\* render.rs:82-85
tile_bounds ==
    << div_ceil(img_size[1], TILE_WIDTH), div_ceil(img_size[2], TILE_WIDTH) >>

\* render.rs:194
num_tiles == tile_bounds[1] * tile_bounds[2]

Tiles == 0 .. num_tiles - 1

\* The pixels the model renders: the first pixel of every tile.
Pixels ==
    { << tx * TILE_WIDTH, ty * TILE_WIDTH >> :
        tx \in 0 .. tile_bounds[1] - 1, ty \in 0 .. tile_bounds[2] - 1 }

TileOfPixel(p) == (p[2] \div TILE_WIDTH) * tile_bounds[1] + (p[1] \div TILE_WIDTH)

----------------------------------------------------------------------------
(* render.rs:40-53 *)

sh_coeffs_for_degree(degree) == (degree + 1) * (degree + 1)

\* Mutant: an unknown coefficient count falls back to degree 0 instead of panicking.
sh_degree_from_coeffs_lenient(coeffs_per_channel) ==
    CASE coeffs_per_channel = 1  -> 0
      [] coeffs_per_channel = 4  -> 1
      [] coeffs_per_channel = 9  -> 2
      [] coeffs_per_channel = 16 -> 3
      [] coeffs_per_channel = 25 -> 4
      [] OTHER -> 0

sh_degree_from_coeffs(coeffs_per_channel) ==
    CASE coeffs_per_channel = 1  -> 0
      [] coeffs_per_channel = 4  -> 1
      [] coeffs_per_channel = 9  -> 2
      [] coeffs_per_channel = 16 -> 3
      [] coeffs_per_channel = 25 -> 4
      [] OTHER -> Panic

----------------------------------------------------------------------------
(* State after construction: the caller holds the inputs, nothing else exists *)

EmptyDevice ==
    /\ num_visible = 0
    /\ sh_degree = Uninit
    /\ global_from_presort_gid = <<>>
    /\ depths = <<>>
    /\ global_from_compact_gid = <<>>
    /\ projected_splats = <<>>
    /\ num_tiles_hit = <<>>
    /\ cum_tiles_hit = <<>>
    /\ num_intersections = Uninit
    /\ tile_id_from_isect = <<>>
    /\ compact_gid_from_isect = <<>>
    /\ tile_bins = <<>>
    /\ out_img = <<>>
    /\ final_index = <<>>
    /\ raster_T = <<>>

InitCall ==
    /\ pc = "Setup"
    /\ pending = {}
    /\ dispatched = <<>>
    /\ buffers = {}
    /\ call_no = 1
    /\ prev_img = <<>>
    /\ bw_state = NoState
    /\ bw_read = <<>>
    /\ bw_walk = <<>>
    /\ v_output = Uninit
    /\ grads = NoGrads
    /\ registered = {}
    /\ writes = {}
    /\ EmptyDevice

\* No render call is followed: an empty scene before its first stage.
NoCall ==
    /\ prims = <<>>
    /\ img_size = <<0, 0>>
    /\ sh_coeffs_dim = 1
    /\ raster_u32 = FALSE
    /\ backend = "plain"
    /\ tracked = {}
    /\ InitCall

\* The scene and the image size of a call.
InitScene(max_points) ==
    /\ \E n \in 0 .. max_points : prims \in [0 .. n - 1 -> PrimKinds]
    /\ img_size \in ImgSizes

\* Any backend, any output format, any set of gradient-tracked inputs.
Init ==
    /\ InitScene(MaxDiffPoints)
    /\ sh_coeffs_dim \in ShDims
    /\ raster_u32 \in BOOLEAN
    /\ backend \in {"plain", "autodiff"}
    /\ tracked \in IF backend = "autodiff" THEN TrackedSets ELSE { {} }
    /\ OnlyCall
    /\ InitCall

\* Primitives at the edges of the pipeline: one at the camera position (depth
\* 0, the scene of the test renders_at_all), one with zero opacity, one with a
\* degenerate scale (an empty footprint), and an ordinary one behind them.
EdgePrimKinds ==
    { [depth2 |-> 0, bbox |-> <<0, 0, 32, 32>>, logit |-> 0,       colour |-> 1],
      [depth2 |-> 1, bbox |-> <<0, 0, 20, 20>>, logit |-> 0 - 200, colour |-> 1],
      [depth2 |-> 1, bbox |-> <<4, 4, 4, 4>>,   logit |-> 0,       colour |-> 1],
      [depth2 |-> 2, bbox |-> <<0, 0, 32, 16>>, logit |-> 0,       colour |-> 1] }

\* The autodiff backend with a 32 x 32 float image and degree-0 colour, as the
\* test calls it (render.rs:664-685), with no input or every input requiring a
\* gradient.
InitEdge ==
    /\ \E n \in 0 .. MaxEdgePoints : prims \in [0 .. n - 1 -> EdgePrimKinds]
    /\ img_size = <<32, 32>>
    /\ sh_coeffs_dim = 1
    /\ raster_u32 = FALSE
    /\ backend = "autodiff"
    /\ tracked \in { {}, InputNames }
    /\ OnlyCall
    /\ InitCall

\* Image sizes of up to MaxSideTiles tiles a side, with the last column of
\* tiles full or one pixel wide.
GridImgSizes ==
    { << TILE_WIDTH * a - r, TILE_WIDTH * b >> :
        a \in 1 .. MaxSideTiles, b \in 1 .. MaxSideTiles, r \in {0, TILE_WIDTH - 1} }

\* A primitive in front of the camera covering the first two tiles, and one
\* behind the camera.
GridPrimKinds ==
    { [depth2 |-> 2,     bbox |-> <<0, 0, 32, 16>>, logit |-> 0, colour |-> 1],
      [depth2 |-> 0 - 2, bbox |-> <<0, 0, 16, 16>>, logit |-> 0, colour |-> 1] }

\* The plain backend with float output on tile grids of many sizes, with at
\* most two primitives.
InitGrid ==
    /\ \E n \in 0 .. 2 : prims \in [0 .. n - 1 -> GridPrimKinds]
    /\ img_size \in GridImgSizes
    /\ sh_coeffs_dim = 1
    /\ raster_u32 = FALSE
    /\ backend = "plain"
    /\ tracked = {}
    /\ OnlyCall
    /\ InitCall

\* The plain backend with float output: render_forward alone, on larger scenes.
InitForward ==
    /\ InitScene(MaxPoints)
    /\ sh_coeffs_dim \in {1, 5}
    /\ raster_u32 = FALSE
    /\ backend = "plain"
    /\ tracked = {}
    /\ OnlyCall
    /\ InitCall

----------------------------------------------------------------------------
(* Generic radix sort (design 4.2, 4.6, 9): sorts the first count key words  *)
(* ascending by their low `bits` bits, stably, and carries the payload.      *)

MaskKey(k, bits) ==
    IF bits >= 32 THEN k
    ELSE IF bits >= 16 THEN << k[1] % Pow(2, bits - 16), k[2] >>
    ELSE << 0, k[2] % Pow(2, bits) >>

KeyLess(a, b) == a[1] < b[1] \/ (a[1] = b[1] /\ a[2] < b[2])

radix_argsort(keys, vals, count, bits) ==
    LET n == Min(count, Cardinality(DOMAIN keys))
        I == 0 .. n - 1
        mk(i) == MaskKey(keys[i], bits)
        Before(j, i) == KeyLess(mk(j), mk(i)) \/ (mk(j) = mk(i) /\ j < i)
        rank(i) == Cardinality({ j \in I : Before(j, i) })
        ranked  == { << rank(i), i >> : i \in I }
        from(r) == (CHOOSE ri \in ranked : ri[1] = r)[2]
    IN  << [r \in DOMAIN keys |-> IF r < n THEN keys[from(r)] ELSE UninitWord],
           [r \in DOMAIN vals |-> IF r < n THEN vals[from(r)] ELSE Uninit] >>

----------------------------------------------------------------------------
(* Projection kernel helpers (design 4.1, 4.3) *)

\* Tile rectangle <<x0, y0, x1, y1>> (half-open, in tiles) that a pixel
\* footprint overlaps, clamped to the tile grid.
get_tile_bbox(bbox) ==
    << Clamp(bbox[1] \div TILE_WIDTH, 0, tile_bounds[1]),
       Clamp(bbox[2] \div TILE_WIDTH, 0, tile_bounds[2]),
       Clamp(div_ceil(bbox[3], TILE_WIDTH), 0, tile_bounds[1]),
       Clamp(div_ceil(bbox[4], TILE_WIDTH), 0, tile_bounds[2]) >>

TileArea(tb) == (tb[3] - tb[1]) * (tb[4] - tb[2])

\* depth > 0, and the footprint intersects the image
IsVisible(prim) ==
    /\ prim.depth2 > 0
    /\ TileArea(get_tile_bbox(prim.bbox)) > 0

VisibleGids == { g \in DOMAIN prims : IsVisible(prims[g]) }

\* Saturating nonlinearity on the raw logit, in units of 1 / AlphaDen.
Sigmoid(logit) ==
    CASE logit <= 0 - 200 -> 0
      [] logit >= 200     -> AlphaDen
      [] OTHER            -> AlphaDen \div 2

----------------------------------------------------------------------------
(* render_forward, render.rs:55-323 *)

Submit(kernel) == dispatched' = Append(dispatched, kernel)

\* The buffers each stage has bound for writing: the host creates the uniform
\* buffer; a kernel writes the output buffers among its bindings (render.rs:
\* 133-140, 172-182, 215-221, 256-260, 285-299, 519-530, 552-562, 581-592); a
\* sort, a scan and a slice return new tensors (render.rs:146, 151, 186, 191,
\* 229).  gather_out is the set written by the gather kernel.
KernelWritesWith(gather_out) ==
    [stage \in {"Setup", "ProjectSplats", "DepthSort", "ProjectVisible", "PrefixSum",
                "MapGaussiansToIntersect", "TileSort", "GetTileBinEdges", "Rasterize",
                "RasterizeBackwards", "GatherGrads", "ProjectBackwards"} |->
        CASE stage = "Setup" -> {"uniforms_buffer"}
          [] stage = "ProjectSplats" -> {"uniforms_buffer", "global_from_presort_gid", "depths"}
          [] stage = "DepthSort" -> {"num_visible", "depths_sorted", "global_from_compact_gid"}
          [] stage = "ProjectVisible" -> {"num_vis_wg", "projected_splats", "num_tiles_hit"}
          [] stage = "PrefixSum" -> {"cum_tiles_hit", "num_intersections"}
          [] stage = "MapGaussiansToIntersect" -> {"tile_id_from_isect", "compact_gid_from_isect"}
          [] stage = "TileSort" -> {"tile_id_from_isect_sorted", "compact_gid_from_isect_sorted"}
          [] stage = "GetTileBinEdges" -> {"tile_bins"}
          [] stage = "Rasterize" ->
                 {"out_img"} \cup (IF raster_u32 THEN {} ELSE {"final_index"})
          [] stage = "RasterizeBackwards" -> {"v_xys_local", "v_conics", "v_colors"}
          [] stage = "GatherGrads" -> gather_out
          [] stage = "ProjectBackwards" -> {"v_means", "v_scales", "v_quats"}]

\* Mutant: the gather kernel writes the local xy buffer it is given as input.
KernelWritesGatherLocal ==
    KernelWritesWith({"num_vis_wg_backward", "v_coeffs", "v_opacities", "v_xys_local"})

KernelWrites ==
    KernelWritesWith({"num_vis_wg_backward", "v_coeffs", "v_opacities", "v_xys_global"})

\* The writes that are atomic operations: the visible counter (design 4.1) and
\* the local gradient accumulators (render.rs:504, 513-517, design 4.9).
IsAtomic(stage, buf) ==
    \/ stage = "ProjectSplats" /\ buf = "uniforms_buffer"
    \/ stage = "RasterizeBackwards"

\* The stage binds its output buffers; shared holds those in which two threads
\* of the dispatch write the same location.
Log(stage, shared) ==
    writes' = writes \cup
        { [buf |-> b, stage |-> stage, atomic |-> IsAtomic(stage, b), shared |-> b \in shared] :
            b \in KernelWrites[stage] }

\* The statements of render_forward in program order, render.rs:99-323
StageOrder ==
    << "Setup", "ProjectSplats", "DepthSort", "ProjectVisible", "PrefixSum",
       "MapGaussiansToIntersect", "TileSort", "GetTileBinEdges", "Rasterize", "Return" >>

StageAfterIn(order, stage) ==
    order[(CHOOSE k \in DOMAIN order : order[k] = stage) + 1]

\* Mutant: the tile mapper is submitted before the prefix sum.
StageAfterMapFirst(stage) ==
    StageAfterIn(<< "Setup", "ProjectSplats", "DepthSort", "ProjectVisible",
                    "MapGaussiansToIntersect", "PrefixSum", "TileSort",
                    "GetTileBinEdges", "Rasterize", "Return" >>, stage)

StageAfter(stage) == StageAfterIn(StageOrder, stage)

Create(names) == buffers' = buffers \cup names

\* Mutant: the uniform buffer is created with the primitive count as its
\* visible count.
UniformsNumVisibleTotal == total_splats

\* render.rs:109: the visible counter the uniform buffer is created with
UniformsNumVisible == 0

\* render.rs:65-121: dimension check, tile grid, SH degree, uniform buffer
Setup ==
    /\ pc = "Setup"
    /\ sh_degree' = sh_degree_from_coeffs(sh_coeffs_dim)
    /\ IF sh_degree' = Panic
       THEN /\ pc' = "panicked"
            /\ UNCHANGED << buffers, writes >>
       ELSE /\ pc' = StageAfter("Setup")
            /\ Create({"uniforms_buffer"})
            /\ Log("Setup", {})
    /\ num_visible' = UniformsNumVisible
    /\ UNCHANGED << aside, inputs, pending, dispatched, call_no, prev_img, bw_state, bw_read, bw_walk, backward,
                    global_from_presort_gid, depths, global_from_compact_gid,
                    projected_splats, num_tiles_hit, cum_tiles_hit, num_intersections,
                    tile_id_from_isect, compact_gid_from_isect, tile_bins, out_img,
                    final_index, raster_T >>

\* render.rs:124-142: the presort buffers, and the ProjectSplats dispatch
ProjectSplats ==
    /\ pc = "ProjectSplats"
    /\ Create({"global_from_presort_gid", "depths"})
    /\ global_from_presort_gid' = [i \in 0 .. num_points - 1 |-> 0]
    /\ depths' = [i \in 0 .. num_points - 1 |-> UninitWord]
    /\ Submit("ProjectSplats")
    /\ Log("ProjectSplats", {})
    /\ pending' = DOMAIN prims
    /\ pc' = StageAfter("ProjectSplats")
    /\ UNCHANGED << aside, inputs, call_no, prev_img, bw_state, bw_read, bw_walk, backward, num_visible, sh_degree,
                    global_from_compact_gid, projected_splats, num_tiles_hit,
                    cum_tiles_hit, num_intersections, tile_id_from_isect,
                    compact_gid_from_isect, tile_bins, out_img, final_index, raster_T >>

\* One thread of the ProjectSplats kernel (design 4.1): a visible primitive takes
\* the next slot from the atomic visible counter and writes its pair there.
ProjectSplatsThread(global_gid) ==
    /\ global_gid \in pending
    /\ pending' = pending \ {global_gid}
    /\ IF IsVisible(prims[global_gid])
       THEN LET write_id == num_visible
                counter(shared) == [buf |-> "uniforms_buffer", stage |-> "ProjectSplats",
                                    atomic |-> IsAtomic("ProjectSplats", "uniforms_buffer"),
                                    shared |-> shared]
            IN  /\ num_visible' = num_visible + 1
                /\ writes' = IF (DOMAIN prims \ pending) \cap VisibleGids = {}
                              THEN writes
                              ELSE (writes \ {counter(FALSE)}) \cup {counter(TRUE)}
                /\ global_from_presort_gid' =
                       [global_from_presort_gid EXCEPT ![write_id] = global_gid]
                /\ depths' = [depths EXCEPT ![write_id] = F32Bits(prims[global_gid].depth2)]
       ELSE UNCHANGED << num_visible, global_from_presort_gid, depths, writes >>
    /\ UNCHANGED << aside, inputs, pc, dispatched, buffers, call_no, prev_img, bw_state, bw_read, bw_walk, backward,
                    sh_degree, global_from_compact_gid, projected_splats, num_tiles_hit,
                    cum_tiles_hit, num_intersections, tile_id_from_isect,
                    compact_gid_from_isect, tile_bins, out_img, final_index, raster_T >>

\* Mutant: the depth sort is given the low half of the key only.
DepthSortBitsHalved == DEPTH_SORT_BITS \div 2

\* render.rs:155: the number of key bits given to the depth sort
DepthSortBits == DEPTH_SORT_BITS

\* Mutant: the depth sort is given every presort slot.
DepthSortCountAll == num_points

\* render.rs:155: the number of elements given to the depth sort
DepthSortCount == num_visible

\* render.rs:144-159: read num_visible, sort the pairs by depth
DepthSort ==
    /\ pc = "DepthSort"
    /\ pending = {}
    /\ Submit("DepthSort")
    /\ Log("DepthSort", {})
    /\ Create({"global_from_compact_gid"})
    /\ global_from_compact_gid' =
           radix_argsort(depths, global_from_presort_gid, DepthSortCount, DepthSortBits)[2]
    /\ pc' = StageAfter("DepthSort")
    /\ UNCHANGED << aside, inputs, pending, call_no, prev_img, bw_state, bw_read, bw_walk, backward, num_visible,
                    sh_degree, global_from_presort_gid, depths, projected_splats,
                    num_tiles_hit, cum_tiles_hit, num_intersections, tile_id_from_isect,
                    compact_gid_from_isect, tile_bins, out_img, final_index, raster_T >>

\* A row of projected_splats that create_tensor allocated and no kernel wrote.
UninitSplat ==
    [bbox |-> <<Uninit, Uninit, Uninit, Uninit>>, opac |-> Uninit, colour |-> Uninit]

\* ProjectVisible kernel (design 4.3) for compact id c: footprint, colour and
\* opacity of the primitive at that place of the depth order.
ProjectedSplatOf(global_gid) ==
    [bbox   |-> prims[global_gid].bbox,
     opac   |-> Sigmoid(prims[global_gid].logit),
     colour |-> prims[global_gid].colour]

\* render.rs:161-184: projected splats and the per-splat tile counts
ProjectVisible ==
    /\ pc = "ProjectVisible"
    /\ Create({"projected_splats", "num_tiles_hit", "num_vis_wg"})
    /\ Submit("ProjectVisible")
    /\ Log("ProjectVisible", {})
    /\ projected_splats' =
           [c \in 0 .. num_points - 1 |->
               IF c < num_visible
               THEN ProjectedSplatOf(global_from_compact_gid[c])
               ELSE UninitSplat]
    /\ num_tiles_hit' =
           [c \in 0 .. num_points - 1 |->
               IF c < num_visible
               THEN TileArea(get_tile_bbox(prims[global_from_compact_gid[c]].bbox))
               ELSE 0]
    /\ pc' = StageAfter("ProjectVisible")
    /\ UNCHANGED << aside, inputs, pending, call_no, prev_img, bw_state, bw_read, bw_walk, backward, num_visible,
                    sh_degree, global_from_presort_gid, depths, global_from_compact_gid,
                    cum_tiles_hit, num_intersections, tile_id_from_isect,
                    compact_gid_from_isect, tile_bins, out_img, final_index, raster_T >>

RECURSIVE SumTo(_, _)
SumTo(f, n) == IF n = 0 THEN 0 ELSE f[n - 1] + SumTo(f, n - 1)

\* Generic exclusive scan (design 4.4): element i is the sum of the elements before i.
prefix_sum(counts) == [i \in DOMAIN counts |-> SumTo(counts, i)]

\* Mutant: the slice starts one element too far.
NumIntersectionsOfPastEnd(cum) ==
    IF num_points \notin DOMAIN cum THEN Panic ELSE cum[num_points]

\* render.rs:191-192: the last element of the scan; num_points - 1 underflows
\* when there are no primitives.
NumIntersectionsOf(cum) ==
    IF num_points = 0 THEN Panic ELSE cum[num_points - 1]

\* render.rs:186-192
PrefixSum ==
    /\ pc = "PrefixSum"
    /\ Submit("PrefixSum")
    /\ Log("PrefixSum", {})
    /\ Create({"cum_tiles_hit"})
    /\ cum_tiles_hit' = prefix_sum(num_tiles_hit)
    /\ num_intersections' = NumIntersectionsOf(cum_tiles_hit')
    /\ pc' = IF num_intersections' = Panic THEN "panicked" ELSE StageAfter("PrefixSum")
    /\ UNCHANGED << aside, inputs, pending, call_no, prev_img, bw_state, bw_read, bw_walk, backward, num_visible,
                    sh_degree, global_from_presort_gid, depths, global_from_compact_gid,
                    projected_splats, num_tiles_hit, tile_id_from_isect,
                    compact_gid_from_isect, tile_bins, out_img, final_index, raster_T >>

\* Mutant: the capacity is the primitive count, clamped.
max_intersects_points(n_points, n_tiles) == Min(n_points, MAX_ISECT_GROUPS * MAX_DISPATCH)

\* render.rs:204-206 (the product stays far below the saturation of usize)
max_intersects_of(n_points, n_tiles) ==
    Min(n_points * n_tiles, MAX_ISECT_GROUPS * MAX_DISPATCH)

max_intersects == max_intersects_of(num_points, num_tiles)

\* The k-th tile (row-major) of a tile rectangle.
TileAt(tb, k) ==
    (tb[2] + (k \div (tb[3] - tb[1]))) * tile_bounds[1] + tb[1] + (k % (tb[3] - tb[1]))

\* MapGaussiansToIntersect kernel (design 4.5): the threads (compact ids) that
\* write intersection slot s, given the offsets; the compact id left in slot s,
\* or Uninit when no thread writes it.
MapperThreadsAt(offsets, s) ==
    { c \in (0 .. num_visible - 1) \cap DOMAIN offsets :
        offsets[c] <= s /\ s < offsets[c] + num_tiles_hit[c] }

MapperOf(offsets, s) ==
    LET W == MapperThreadsAt(offsets, s)
    IN  IF W = {} THEN Uninit ELSE CHOOSE c \in W : TRUE

\* Mutant: the tile counts are bound to the mapper in place of their scan.
MapperOffsetsCounts == num_tiles_hit

\* render.rs:218: the offsets buffer bound to the mapper
MapperOffsets == cum_tiles_hit

\* render.rs:194-223
MapGaussiansToIntersect ==
    /\ pc = "MapGaussiansToIntersect"
    /\ Create({"tile_id_from_isect", "compact_gid_from_isect"})
    /\ Submit("MapGaussiansToIntersect")
    /\ Log("MapGaussiansToIntersect",
           IF \E s \in 0 .. max_intersects - 1 : Cardinality(MapperThreadsAt(MapperOffsets, s)) > 1
           THEN KernelWrites["MapGaussiansToIntersect"] ELSE {})
    /\ tile_id_from_isect' =
           [s \in 0 .. max_intersects - 1 |->
               LET c == MapperOf(MapperOffsets, s)
               IN  IF c = Uninit THEN UninitWord
                   ELSE I32Bits(TileAt(get_tile_bbox(projected_splats[c].bbox),
                                       s - MapperOffsets[c]))]
    /\ compact_gid_from_isect' =
           [s \in 0 .. max_intersects - 1 |-> MapperOf(MapperOffsets, s)]
    /\ pc' = StageAfter("MapGaussiansToIntersect")
    /\ UNCHANGED << aside, inputs, pending, call_no, prev_img, bw_state, bw_read, bw_walk, backward, num_visible,
                    sh_degree, global_from_presort_gid, depths, global_from_compact_gid,
                    projected_splats, num_tiles_hit, cum_tiles_hit, num_intersections,
                    tile_bins, out_img, final_index, raster_T >>

RECURSIVE BitLen(_)
BitLen(n) == IF n = 0 THEN 0 ELSE 1 + BitLen(n \div 2)

leading_zeros(n) == U32_BITS - BitLen(n)

\* Mutant: one key bit fewer.
TileSortBitsShort == U32_BITS - leading_zeros(num_tiles) - 1

\* render.rs:227
TileSortBits == U32_BITS - leading_zeros(num_tiles)

\* Mutant: the tile sort is given the visible count.
TileSortCountVisible == num_visible

\* render.rs:234: the number of elements given to the tile sort
TileSortCount == num_intersections

\* render.rs:229-237
TileSort ==
    /\ pc = "TileSort"
    /\ Submit("TileSort")
    /\ Log("TileSort", {})
    /\ LET sorted == radix_argsort(tile_id_from_isect, compact_gid_from_isect,
                                   TileSortCount, TileSortBits)
       IN  /\ tile_id_from_isect' = sorted[1]
           /\ compact_gid_from_isect' = sorted[2]
    /\ pc' = StageAfter("TileSort")
    /\ UNCHANGED << aside, inputs, pending, buffers, call_no, prev_img, bw_state, bw_read, bw_walk, backward,
                    num_visible, sh_degree, global_from_presort_gid, depths,
                    global_from_compact_gid, projected_splats, num_tiles_hit,
                    cum_tiles_hit, num_intersections, tile_bins, out_img, final_index,
                    raster_T >>

\* render.rs:241-244: the bin table as allocated, before the kernel runs
TileBinsAlloc == [t \in Tiles |-> <<0, 0>>]

\* GetTileBinEdges kernel (design 4.7): one thread per sorted intersection; the
\* thread at a tile-id boundary writes the start of its tile and the end of the
\* previous one, the last thread writes the end of its tile.
BinStarts(tids, n, t) ==
    { i \in 0 .. n - 1 : I32Value(tids[i]) = t /\ (i = 0 \/ I32Value(tids[i - 1]) # t) }

BinEnds(tids, n, t) ==
    { i \in 1 .. n : I32Value(tids[i - 1]) = t /\ (i = n \/ I32Value(tids[i]) # t) }

BinEdges(alloc, tids, n) ==
    [t \in DOMAIN alloc |->
        LET S == BinStarts(tids, n, t)
            E == BinEnds(tids, n, t)
        IN  << IF S = {} THEN alloc[t][1] ELSE CHOOSE i \in S : TRUE,
               IF E = {} THEN alloc[t][2] ELSE CHOOSE i \in E : TRUE >>]

\* render.rs:239-264
GetTileBinEdges ==
    /\ pc = "GetTileBinEdges"
    /\ Create({"tile_bins"})
    /\ Submit("GetTileBinEdges")
    /\ Log("GetTileBinEdges",
           IF \E t \in Tiles :
                  \/ Cardinality(BinStarts(tile_id_from_isect, num_intersections, t)) > 1
                  \/ Cardinality(BinEnds(tile_id_from_isect, num_intersections, t)) > 1
           THEN {"tile_bins"} ELSE {})
    /\ tile_bins' = BinEdges(TileBinsAlloc, tile_id_from_isect, num_intersections)
    /\ pc' = StageAfter("GetTileBinEdges")
    /\ UNCHANGED << aside, inputs, pending, call_no, prev_img, bw_state, bw_read, bw_walk, backward, num_visible,
                    sh_degree, global_from_presort_gid, depths, global_from_compact_gid,
                    projected_splats, num_tiles_hit, cum_tiles_hit, num_intersections,
                    tile_id_from_isect, compact_gid_from_isect, out_img, final_index,
                    raster_T >>

----------------------------------------------------------------------------
(* Forward rasterizer kernel (design 4.8), one thread per pixel *)

\* Gaussian weight of a splat at a pixel times its opacity, in units of
\* 1 / AlphaDen: the footprint is a box, the weight is 1 inside it and 0 outside.
AlphaAt(splat, p) ==
    IF /\ splat.bbox[1] <= p[1] /\ p[1] < splat.bbox[3]
       /\ splat.bbox[2] <= p[2] /\ p[2] < splat.bbox[4]
    THEN splat.opac
    ELSE 0

\* T < 1e-4
BelowThreshold(T) == T * T_EPS_INV < TDen

\* Mutant: the walk never stops before the end of the bin.
RECURSIVE WalkToEnd(_, _, _, _, _, _)
WalkToEnd(p, i, end, T, col, trace) ==
    IF i >= end
    THEN [T |-> T, col |-> col, last |-> i, trace |-> trace]
    ELSE LET splat == projected_splats[compact_gid_from_isect[i]]
             alpha == AlphaAt(splat, p)
             T2    == (T * (AlphaDen - alpha)) \div AlphaDen
             col2  == col + ((T * alpha * splat.colour) \div AlphaDen)
         IN  WalkToEnd(p, i + 1, end, T2, col2, Append(trace, T2))

\* The walk of pixel p from sorted intersection i to the end of its bin, with
\* transmittance T and colour col so far; trace collects T after each splat.
RECURSIVE Walk(_, _, _, _, _, _)
Walk(p, i, end, T, col, trace) ==
    IF i >= end \/ BelowThreshold(T)
    THEN [T |-> T, col |-> col, last |-> i, trace |-> trace]
    ELSE LET splat == projected_splats[compact_gid_from_isect[i]]
             alpha == AlphaAt(splat, p)
             T2    == (T * (AlphaDen - alpha)) \div AlphaDen
             col2  == col + ((T * alpha * splat.colour) \div AlphaDen)
         IN  Walk(p, i + 1, end, T2, col2, Append(trace, T2))

RasterizePixel(p) ==
    LET bin == tile_bins[TileOfPixel(p)]
    IN  Walk(p, bin[1], bin[2], TDen, 0, <<>>)

\* Float output: colour and alpha = 1 - T, in units of 1 / TDen.
FloatPixel(w) == [rgb |-> w.col, alpha |-> TDen - w.T]

\* Packed output: the channels quantised to 8 bits in one word.
PackedPixel(w) == (((TDen - w.T) * 255) \div TDen) * 256 + ((w.col * 255) \div TDen)

\* Mutant: the condition is inverted.
BindsFinalIndexInverted == raster_u32

\* render.rs:297-299: the terminal index is bound to the kernel in float mode only
BindsFinalIndex == ~raster_u32

\* render.rs:267-307
Rasterize ==
    /\ pc = "Rasterize"
    /\ Create({"out_img", "final_index"})
    /\ Submit("Rasterize")
    /\ Log("Rasterize", {})
    /\ \E w \in { [p \in Pixels |-> RasterizePixel(p)] } :
           /\ out_img' = [p \in Pixels |->
                             IF raster_u32 THEN PackedPixel(w[p]) ELSE FloatPixel(w[p])]
           /\ final_index' = [p \in Pixels |->
                                 IF BindsFinalIndex THEN w[p].last ELSE Uninit]
           /\ raster_T' = [p \in Pixels |-> w[p].trace]
    /\ pc' = StageAfter("Rasterize")
    /\ UNCHANGED << aside, inputs, pending, call_no, prev_img, bw_state, bw_read, bw_walk, backward, num_visible,
                    sh_degree, global_from_presort_gid, depths, global_from_compact_gid,
                    projected_splats, num_tiles_hit, cum_tiles_hit, num_intersections,
                    tile_id_from_isect, compact_gid_from_isect, tile_bins >>

----------------------------------------------------------------------------
(* render_splats, render.rs:325-350 and 366-463 *)

\* Mutant: the state is saved whenever the backend is the autodiff one.
IsTrackedAlways == backend = "autodiff"

\* render.rs:418-429, 433, 453: the operation is tracked when a parent node
\* requires a gradient
IsTracked == backend = "autodiff" /\ tracked # {}

\* render.rs:436-444
BackwardState ==
    [saved       |-> TRUE,
     checkpoints |-> {"means", "log_scales", "quats", "raw_opacity"},
     sh_degree   |-> sh_degree_from_coeffs(sh_coeffs_dim),
     aux         |-> TRUE,
     out_img     |-> TRUE]

\* render.rs:337-348 (plain backend), render.rs:399-461 (autodiff backend)
Return ==
    /\ pc = "Return"
    /\ bw_state' = IF IsTracked THEN BackwardState ELSE NoState
    /\ pc' = "returned"
    /\ UNCHANGED writes
    /\ UNCHANGED << aside, inputs, pending, dispatched, buffers, call_no, prev_img, bw_read, bw_walk, backward,
                    device >>

----------------------------------------------------------------------------
(* RenderBackwards::backward, render.rs:468-626 *)

\* Transmittance left at pixel p behind the sorted intersections i .. j - 1.
RECURSIVE TransmittanceOver(_, _, _)
TransmittanceOver(p, i, j) ==
    IF j <= i THEN TDen
    ELSE (TransmittanceOver(p, i, j - 1)
            * (AlphaDen - AlphaAt(projected_splats[compact_gid_from_isect[j - 1]], p)))
         \div AlphaDen

\* The sum of f over S, equal terms taken together.
RECURSIVE SumF(_, _)
SumF(f, S) ==
    IF S = {} THEN 0
    ELSE LET x    == CHOOSE x \in S : TRUE
             Same == { y \in S : f[y] = f[x] }
         IN  f[x] * Cardinality(Same) + SumF(f, S \ Same)

\* The loss gradient of the model: a unit value at every pixel and channel.
VOutputs == {1}

\* What the backward rasterizer takes as the terminal index of each pixel: the
\* recorded one, or the word the unwritten buffer happens to hold (the model
\* samples buffers holding the same word, inside the sorted array, everywhere).
TerminalIndexRead(garbage) ==
    [p \in Pixels |-> IF bw_read'[p] = Uninit THEN garbage ELSE bw_read'[p]]

\* What a float operation gives when it has no defined value (0 / 0, or an
\* operand that is not a float of the forward pass).
NaN == 0 - 3

\* render.rs:525: the backward rasterizer is given the forward image; the
\* transmittance left behind the walk is 1 - its alpha.  A packed image holds
\* no float alpha.
FinalT(p) == IF raster_u32 THEN NaN ELSE TDen - out_img[p].alpha

\* The forward recursion T_after = T * (1 - alpha) inverted (design 4.9).
InvertT(T_after, alpha) ==
    IF T_after = NaN \/ alpha = AlphaDen
    THEN NaN
    ELSE (T_after * AlphaDen) \div (AlphaDen - alpha)

\* RasterizeBackwards kernel (design 4.9) at pixel p: the bin range replayed
\* back to front from sorted intersection i down to the start of the bin, T
\* being the transmittance behind splat i; each visit is recorded with the
\* transmittance reconstructed in front of the splat.
RECURSIVE BackwardWalk(_, _, _, _)
BackwardWalk(p, i, T, walk) ==
    IF i < tile_bins[TileOfPixel(p)][1]
    THEN walk
    ELSE LET alpha == AlphaAt(projected_splats[compact_gid_from_isect[i]], p)
             Tb    == InvertT(T, alpha)
         IN  BackwardWalk(p, i - 1, Tb, Append(walk, [i |-> i, T |-> Tb]))

\* RasterizeBackwards kernel (design 4.9): the <<pixel, sorted intersection>>
\* pairs replayed for splat c, those of the pixel's bin range below its
\* terminal index at which the splat has a non-zero alpha.
Replayed(c, fin) ==
    { pi \in Pixels \X (0 .. Cardinality(DOMAIN compact_gid_from_isect) - 1) :
        /\ tile_bins[TileOfPixel(pi[1])][1] <= pi[2]
        /\ pi[2] < fin[pi[1]]
        /\ compact_gid_from_isect[pi[2]] = c
        /\ AlphaAt(projected_splats[c], pi[1]) > 0 }

\* Transmittance in front of the replayed pair.
T_before(pi) == TransmittanceOver(pi[1], tile_bins[TileOfPixel(pi[1])][1], pi[2])

\* Every replayed pair of the call with its splat, its alpha and its weight
\* T * v_output.
ReplayedPairs(fin, v) ==
    UNION { { [pi |-> pi, c |-> c, alpha |-> AlphaAt(projected_splats[c], pi[1]),
               w |-> T_before(pi) * v] : pi \in Replayed(c, fin) } :
            c \in 0 .. num_points - 1 }

\* The rows the pixels' atomic adds leave in the three local buffers (chain
\* rule of colour += T * alpha * splat colour, with a unit geometric factor):
\* for every compact id the sums for v_xys_local, v_conics and v_colors over
\* the replayed pairs R.
LocalGrads(R) ==
    [c \in 0 .. num_points - 1 |->
        LET Rc == { r \in R : r.c = c }
        IN  [xy    |-> SumF([r \in Rc |-> r.w * r.alpha], Rc),
             conic |-> SumF([r \in Rc |-> r.w * r.alpha * r.alpha], Rc),
             rgb   |-> SumF([r \in Rc |-> r.w * r.alpha], Rc),
             a     |-> SumF([r \in Rc |-> r.w], Rc)]]

\* Two pixel threads add to the row of the same splat.
ReplayShared(R) == \E r, q \in R : r.c = q.c /\ r.pi[1] # q.pi[1]

\* The words an unwritten terminal index may hold; nothing is sampled when the
\* forward rasterizer wrote it.
GarbageIndices ==
    IF \E p \in Pixels : final_index[p] = Uninit
    THEN 0 .. Max(num_intersections, 0)
    ELSE {0}

\* Mutant: the buffer is allocated without being cleared.
float_uninit(shape) ==
    [i \in 0 .. shape[1] - 1 |->
        IF Len(shape) = 1 THEN Uninit ELSE [k \in 1 .. shape[2] |-> Uninit]]

\* float_zeros(shape), render.rs:505-507, 539-540, 547, 573-575.  A row of
\* v_coeffs holds one magnitude per SH coefficient, a row of any other buffer
\* one magnitude (shape <<num_points>>).
float_zeros(shape) ==
    [i \in 0 .. shape[1] - 1 |->
        IF Len(shape) = 1 THEN 0 ELSE [k \in 1 .. shape[2] |-> 0]]

\* The primitive count backward takes from the means checkpoint, render.rs:493
bw_num_points == num_points

\* Mutant: the gather and back-projection kernels are given the presort order.
BackwardPermutationPresort == global_from_presort_gid

\* render.rs:554, 586: the permutation bound to the gather and back-projection
\* kernels
BackwardPermutation == global_from_compact_gid

\* The compact id of global id g among the visible ones, or Uninit.
CompactOf(g) ==
    LET C == { c \in 0 .. num_visible - 1 : BackwardPermutation[c] = g }
    IN  IF C = {} THEN Uninit ELSE CHOOSE c \in C : TRUE

\* Two threads of a scatter write the row of the same global id.
ScatterShared ==
    \E c, d \in 0 .. num_visible - 1 :
        c # d /\ BackwardPermutation[c] = BackwardPermutation[d]

\* A kernel with one thread per visible compact id, each writing row
\* global_from_compact_gid[compact id] of a buffer that was zeroed.
ScatterVisible(alloc, rows) ==
    [g \in DOMAIN alloc |-> IF CompactOf(g) = Uninit THEN alloc[g] ELSE rows[CompactOf(g)]]

\* render.rs:504-532: the local gradient buffers and the backward rasterizer,
\* which reads aux.final_index (design 4.9)
RasterizeBackwards ==
    /\ pc = "returned"
    /\ bw_state.saved
    /\ Create({"v_xys_local", "v_conics", "v_colors"})
    /\ Submit("RasterizeBackwards")
    /\ bw_read' = final_index
    /\ v_output' \in VOutputs
    /\ \E garbage \in GarbageIndices :
           \E R \in { ReplayedPairs(TerminalIndexRead(garbage), v_output') } :
           \E local \in { LocalGrads(R) } :
               /\ bw_walk' = [p \in Pixels |->
                                 BackwardWalk(p, TerminalIndexRead(garbage)[p] - 1,
                                              FinalT(p), <<>>)]
               /\ Log("RasterizeBackwards",
                      IF ReplayShared(R) THEN KernelWrites["RasterizeBackwards"] ELSE {})
               /\ grads' = [grads EXCEPT
                      !["v_xys_local"] = [c \in DOMAIN local |-> local[c].xy],
                      !["v_conics"] = [c \in DOMAIN local |-> local[c].conic],
                      !["v_colors"] = [c \in DOMAIN local |->
                                          [rgb |-> local[c].rgb, a |-> local[c].a]]]
    /\ pc' = "GatherGrads"
    /\ UNCHANGED << aside, inputs, pending, call_no, prev_img, bw_state, registered, device >>

\* Derivative of the opacity nonlinearity at the raw logit, in units of
\* 1 / AlphaDen^2.
SigmoidSlope(logit) == Sigmoid(logit) * (AlphaDen - Sigmoid(logit))

\* render.rs:534-538
v_coeffs_shape == << bw_num_points, sh_coeffs_for_degree(bw_state.sh_degree) >>

\* render.rs:534-567: the gather kernel (design 4.10) scatters the local colour
\* and screen-xy gradients to global ids
GatherGrads ==
    /\ pc = "GatherGrads"
    /\ Create({"v_coeffs", "v_opacities", "v_xys_global"})
    /\ Submit("GatherGrads")
    /\ Log("GatherGrads", IF ScatterShared THEN KernelWrites["GatherGrads"] ELSE {})
    /\ LET Vis    == 0 .. num_visible - 1
           coeffs == [c \in Vis |-> [k \in 1 .. v_coeffs_shape[2] |-> grads["v_colors"][c].rgb]]
           opac   == [c \in Vis |-> grads["v_colors"][c].a
                                       * SigmoidSlope(prims[BackwardPermutation[c]].logit)]
           xys    == [c \in Vis |-> grads["v_xys_local"][c]]
       IN  grads' =
               [grads EXCEPT
                   !["v_coeffs"] = ScatterVisible(float_zeros(v_coeffs_shape), coeffs),
                   !["v_opacities"] = ScatterVisible(float_zeros(<<bw_num_points>>), opac),
                   !["v_xys_global"] = ScatterVisible(float_zeros(<<bw_num_points>>), xys)]
    /\ pc' = "ProjectBackwards"
    /\ UNCHANGED << aside, inputs, pending, call_no, prev_img, bw_state, bw_read, bw_walk, v_output,
                    registered, device >>

\* render.rs:569-594: the back-projection kernel (design 4.10) turns the local
\* screen-xy and conic gradients into gradients of the visible primitives
ProjectBackwards ==
    /\ pc = "ProjectBackwards"
    /\ Create({"v_means", "v_scales", "v_quats"})
    /\ Submit("ProjectBackwards")
    /\ Log("ProjectBackwards", IF ScatterShared THEN KernelWrites["ProjectBackwards"] ELSE {})
    /\ LET Vis    == 0 .. num_visible - 1
           means  == [c \in Vis |-> grads["v_xys_local"][c] + grads["v_conics"][c]]
           conics == [c \in Vis |-> grads["v_conics"][c]]
       IN  grads' =
               [grads EXCEPT
                   !["v_means"] = ScatterVisible(float_zeros(<<bw_num_points>>), means),
                   !["v_scales"] = ScatterVisible(float_zeros(<<bw_num_points>>), conics),
                   !["v_quats"] = ScatterVisible(float_zeros(<<bw_num_points>>), conics)]
    /\ pc' = "RegisterGrads"
    /\ UNCHANGED << aside, inputs, pending, call_no, prev_img, bw_state, bw_read, bw_walk, v_output,
                    registered, device >>

\* render.rs:420-427: the nodes given to prepare, in order
PrepNodes == << "means", "xy_dummy", "log_scales", "quats", "sh_coeffs", "raw_opacity" >>

\* Mutant: the dummy xy input is given the compact-id-indexed local gradient.
ParentBuffersLocalXy ==
    << "v_means", "v_xys_local", "v_scales", "v_quats", "v_coeffs", "v_opacities" >>

\* render.rs:598-624: the buffer registered for each element of ops.parents
\* (mean_parent, xys_parent, log_scales_parent, quats_parent, coeffs_parent,
\* raw_opacity_parent), in order
ParentBuffers ==
    << "v_means", "v_xys_global", "v_scales", "v_quats", "v_coeffs", "v_opacities" >>

\* ops.parents: element k is Some exactly when node k requires a gradient
ParentsSome == { k \in DOMAIN PrepNodes : PrepNodes[k] \in tracked }

\* render.rs:596-624
RegisterGrads ==
    /\ pc = "RegisterGrads"
    /\ registered' = { << PrepNodes[k], ParentBuffers[k] >> : k \in ParentsSome }
    /\ pc' = "backward done"
    /\ UNCHANGED writes
    /\ UNCHANGED << aside, inputs, pending, dispatched, buffers, call_no, prev_img, bw_state,
                    bw_read, bw_walk, v_output, grads, device >>

----------------------------------------------------------------------------
(* The caller renders the same primitives and camera a second time *)

RenderAgain ==
    /\ pc = "returned"
    /\ call_no = 1
    /\ call_no' = 2
    /\ prev_img' = out_img
    /\ pc' = "Setup"
    /\ pending' = {}
    /\ dispatched' = <<>>
    /\ buffers' = {}
    /\ bw_state' = NoState
    /\ bw_read' = <<>>
    /\ bw_walk' = <<>>
    /\ v_output' = Uninit
    /\ grads' = NoGrads
    /\ registered' = {}
    /\ writes' = {}
    /\ num_visible' = 0
    /\ sh_degree' = Uninit
    /\ num_intersections' = Uninit
    /\ global_from_presort_gid' = <<>>
    /\ depths' = <<>>
    /\ global_from_compact_gid' = <<>>
    /\ projected_splats' = <<>>
    /\ num_tiles_hit' = <<>>
    /\ cum_tiles_hit' = <<>>
    /\ tile_id_from_isect' = <<>>
    /\ compact_gid_from_isect' = <<>>
    /\ tile_bins' = <<>>
    /\ out_img' = <<>>
    /\ final_index' = <<>>
    /\ raster_T' = <<>>
    /\ UNCHANGED << aside, inputs >>


----------------------------------------------------------------------------
(* The intersection stages on a large uniform scene (design 4.4 - 4.8, 7).   *)
(* cap.n primitives are drawn on a grid of cap.t tiles; cap.v of them are    *)
(* visible (compact ids 0 .. v - 1) and each visible splat overlaps cap.h    *)
(* tiles. The per-slot arrays of such a call have millions of elements, so   *)
(* each buffer is kept as its length and each stage as the highest position  *)
(* of the intersection buffers it indexes (-1 when it indexes none).         *)

CapPoints == {1, 2, 1028, 65535, 65536, 100000}

CapTiles == {1, 4, 128, 129, 8160}

CapStages == {"MapGaussiansToIntersect", "TileSort", "GetTileBinEdges", "Rasterize"}

\* The state of the call after ProjectVisible (render.rs:161-184).
InitCap ==
    /\ NoCall
    /\ atom = NoAtom /\ train = NoTrain /\ app = NoApp
    /\ \E n \in CapPoints, t \in CapTiles :
           \E v \in {0, n - 1, n}, h \in {1, t} :
               cap = [pc |-> "PrefixSum", n |-> n, t |-> t, v |-> v, h |-> h,
                      num_intersections |-> 0, len |-> 0, dropped |-> 0, bins_end |-> 0,
                      touched |-> [st \in CapStages |-> 0 - 1], error |-> FALSE]

\* The number of tile/splat pairs of the scene.
CapTotal == cap.v * cap.h

\* Element i of the exclusive scan of the tile counts (h for the visible
\* compact ids, 0 for the rest).
CapCum(i) == Min(i, cap.v) * cap.h

\* render.rs:186-192
CapPrefixSum ==
    /\ cap.pc = "PrefixSum"
    /\ cap' = [cap EXCEPT !.num_intersections = CapCum(cap.n - 1),
                          !.pc = "MapGaussiansToIntersect"]
    /\ UNCHANGED not_cap

\* render.rs:194-223: the buffers get max_intersects elements; every visible
\* splat writes the slots of its range that lie inside the buffer.
CapMapGaussiansToIntersect ==
    /\ cap.pc = "MapGaussiansToIntersect"
    /\ LET len == max_intersects_of(cap.n, cap.t)
           written == Min(CapTotal, len)
       IN  cap' = [cap EXCEPT !.len = len,
                              !.dropped = CapTotal - written,
                              !.touched["MapGaussiansToIntersect"] = written - 1,
                              !.pc = "TileSort"]
    /\ UNCHANGED not_cap

\* render.rs:225-237: the sort is given num_intersections as its count and
\* sorts the first min(count, length) elements (radix_argsort).
CapTileSort ==
    /\ cap.pc = "TileSort"
    /\ cap' = [cap EXCEPT !.touched["TileSort"] = Min(cap.num_intersections, cap.len) - 1,
                          !.pc = "GetTileBinEdges"]
    /\ UNCHANGED not_cap

\* render.rs:239-264: one thread per position below num_intersections, each
\* reading the tile id at its position (BinStarts, BinEnds); a thread past the
\* end of the buffer reads an undefined tile id, so the largest bin end is the
\* one written inside the buffer or the one written by the last thread.
CapGetTileBinEdges ==
    /\ cap.pc = "GetTileBinEdges"
    /\ \E e \in {Min(cap.num_intersections, cap.len), cap.num_intersections} :
           cap' = [cap EXCEPT !.touched["GetTileBinEdges"] = cap.num_intersections - 1,
                              !.bins_end = e,
                              !.pc = "Rasterize"]
    /\ UNCHANGED not_cap

\* render.rs:267-307: every pixel walks its bin from the start and stops at
\* the bin end, or earlier when its transmittance runs out (Walk).
CapRasterize ==
    /\ cap.pc = "Rasterize"
    /\ \E stop \in {Min(1, cap.bins_end), cap.bins_end} :
           cap' = [cap EXCEPT !.touched["Rasterize"] = stop - 1,
                              !.pc = "Return"]
    /\ UNCHANGED not_cap

\* render.rs:309-322: the call returns its image; no stage reported an error.
CapReturn ==
    /\ cap.pc = "Return"
    /\ cap' = [cap EXCEPT !.pc = "done"]
    /\ UNCHANGED not_cap

----------------------------------------------------------------------------
(* Specifications *)

Forward ==
    \/ Setup
    \/ ProjectSplats
    \/ \E g \in pending : ProjectSplatsThread(g)
    \/ DepthSort
    \/ ProjectVisible
    \/ PrefixSum
    \/ MapGaussiansToIntersect
    \/ TileSort
    \/ GetTileBinEdges
    \/ Rasterize
    \/ Return

Next ==
    \/ Forward
    \/ RasterizeBackwards
    \/ GatherGrads
    \/ ProjectBackwards
    \/ RegisterGrads

Spec == Init /\ [][Next]_vars

SpecForward == InitForward /\ [][Forward]_vars

SpecEdge == InitEdge /\ [][Next]_vars

\* Two calls on the same inputs, plain backend, float output.
InitTwice ==
    /\ InitForward
    /\ sh_coeffs_dim = 1

NextTwice ==
    \/ Forward
    \/ RenderAgain

SpecTwice == InitTwice /\ [][NextTwice]_vars

\* The intersection stages of one call on a large uniform scene.
NextCap ==
    \/ CapPrefixSum
    \/ CapMapGaussiansToIntersect
    \/ CapTileSort
    \/ CapGetTileBinEdges
    \/ CapRasterize
    \/ CapReturn

SpecCap == InitCap /\ [][NextCap]_vars

SpecGrid == InitGrid /\ [][Forward]_vars

----------------------------------------------------------------------------
(* Atomic float add of the backward rasterizer (design 4.9).  The pixel      *)
(* threads of RasterizeBackwards add their contributions to the row of one   *)
(* splat; with hard_floats the add is a native atomic, otherwise it is a     *)
(* compare-and-swap retry loop on the word of the accumulator.               *)

Threads == 0 .. MaxThreads - 1

\* The gradient magnitudes a pixel may contribute to the row of a splat.
Contributions == {0 - 1, 1, 2}

\* render.rs:505-513: the accumulator is zeroed and hard_floats is fixed by the
\* target; each of 1 .. MaxThreads pixel threads, having replayed the splat
\* once, has one contribution to add to its row.
InitAtom ==
    /\ NoCall
    /\ cap = NoCap /\ train = NoTrain /\ app = NoApp
    /\ \E hard \in BOOLEAN, n \in 1 .. MaxThreads :
           \E add \in [0 .. n - 1 -> Contributions] :
               atom = [pc          |-> "adding",
                       hard_floats |-> hard,
                       acc         |-> 0,
                       add         |-> add,
                       todo        |-> [t \in 0 .. n - 1 |-> 1],
                       at          |-> [t \in 0 .. n - 1 |-> "load"],
                       old         |-> [t \in 0 .. n - 1 |-> 0],
                       applied     |-> [t \in 0 .. n - 1 |-> 0],
                       failed      |-> {}]

AtomThreads == IF atom.pc = "none" THEN {} ELSE DOMAIN atom.at

\* After the add that was just applied thread t is done or starts its next add.
AfterAdd(t) == IF atom.todo[t] = 1 THEN "done" ELSE "load"

\* The word of the accumulator after thread t's contribution was added to v.
Added(t, v) ==
    [atom EXCEPT !.acc = v + atom.add[t],
                 !.todo[t] = @ - 1,
                 !.applied[t] = @ + 1,
                 !.at[t] = AfterAdd(t)]

\* Native atomic add: one indivisible step.
HardAdd(t) ==
    /\ t \in AtomThreads
    /\ atom.hard_floats
    /\ atom.at[t] = "load"
    /\ atom' = Added(t, atom.acc)
    /\ UNCHANGED not_atom

\* The emulation reads the word of the accumulator.
CasLoad(t) ==
    /\ t \in AtomThreads
    /\ ~atom.hard_floats
    /\ atom.at[t] = "load"
    /\ atom' = [atom EXCEPT !.old[t] = atom.acc, !.at[t] = "cas"]
    /\ UNCHANGED not_atom

\* Mutant: the store is not conditional.
CasStores(t) == atom.at[t] = "cas"

\* The compare-and-swap succeeds when the word is still the one that was read.
CasSucceeds(t) == atom.acc = atom.old[t]

\* The emulation stores old + contribution if the word is unchanged, and
\* starts again otherwise.
CasStore(t) ==
    /\ t \in AtomThreads
    /\ ~atom.hard_floats
    /\ atom.at[t] = "cas"
    /\ atom' = IF CasSucceeds(t)
               THEN Added(t, atom.old[t])
               ELSE [atom EXCEPT !.at[t] = "load", !.failed = @ \cup {t}]
    /\ UNCHANGED not_atom

\* A step of pixel thread t.
ThreadStep(t) == HardAdd(t) \/ CasLoad(t) \/ CasStore(t)

NextAtom == \E t \in Threads : ThreadStep(t)

SpecAtom == InitAtom /\ [][NextAtom]_vars

\* Every thread that can take a step eventually takes one.
SpecAtomFair == SpecAtom /\ \A t \in Threads : WF_vars(ThreadStep(t))

----------------------------------------------------------------------------
(* brush-viewer: a training session.  The scene panel sends TrainMessages    *)
(* through ViewerContext::send_train_message into the channel that           *)
(* start_data_load created; train_loop takes them out.                       *)

\* train_loop.rs:25-28
Paused(paused) == << "Paused", paused >>

Eval == << "Eval" >>

\* No message: try_recv found the channel empty.
None == << "None" >>

\* viewer.rs:384-402, 225-238 and scene.rs:240-246: start_data_load has made
\* the channels and kept the sender, the zip stream has emitted StartLoading
\* with training = true, so the panel shows the pause button, and train_loop
\* is loading the data set (train_loop.rs:39-98).
InitTrain ==
    /\ NoCall
    /\ cap = NoCap /\ atom = NoAtom /\ app = NoApp
    /\ \E has_eval \in BOOLEAN :
           train = [pc         |-> "loading",
                    queue      |-> <<>>,
                    sender     |-> TRUE,
                    paused     |-> FALSE,
                    is_paused  |-> FALSE,
                    message    |-> None,
                    eval_scene |-> has_eval,
                    evals      |-> 0,
                    since      |-> {},
                    full       |-> FALSE]

\* viewer.rs:440-450 on the session t: try_send on the kept sender; a closed
\* channel (the receiver went with the stream of train_loop) is ignored, a
\* full one reaches unreachable!().
send_train_message(t, message) ==
    IF ~t.sender \/ t.pc = "ended"
    THEN t
    ELSE IF Len(t.queue) >= TRAIN_CHANNEL_CAPACITY
    THEN [t EXCEPT !.full = TRUE]
    ELSE [t EXCEPT !.queue = Append(@, message)]

\* The UI thread runs until it panics.
UiRuns == train.pc # "none" /\ ~train.full

\* scene.rs:155-167: a click on the pause button of a training session.
TogglePause ==
    /\ UiRuns
    /\ train' = send_train_message([train EXCEPT !.paused = ~@], Paused(~train.paused))
    /\ UNCHANGED not_train

\* A request for an evaluation, at most MaxEvals of them in a session.
RequestEval ==
    /\ UiRuns
    /\ train.evals < MaxEvals
    /\ train' = send_train_message([train EXCEPT !.evals = @ + 1], Eval)
    /\ UNCHANGED not_train

\* viewer.rs:350-351: another load drops the sender.
DropSender ==
    /\ UiRuns
    /\ train.sender
    /\ train' = [train EXCEPT !.sender = FALSE]
    /\ UNCHANGED not_train

\* train_loop.rs:39-98: the data set is loaded and DoneLoading emitted, or a
\* `?` ends the stream with the error.
LoadDataset ==
    /\ train.pc = "loading"
    /\ \E ok \in BOOLEAN :
           train' = [train EXCEPT !.pc = IF ok THEN "poll" ELSE "ended"]
    /\ UNCHANGED not_train

\* Mutant: the loop waits for a message when it is not paused.
WaitsForMessageInverted == ~train.is_paused

\* train_loop.rs:103: a paused loop waits for a message
WaitsForMessage == train.is_paused

\* train_loop.rs:103-117: recv().await when paused, try_recv() otherwise; at
\* most one message is taken, and a closed, empty channel ends the loop.
Receive ==
    /\ train.pc = "poll"
    /\ IF train.queue # <<>>
       THEN train' = [train EXCEPT !.message = Head(train.queue),
                                   !.queue = Tail(@),
                                   !.pc = "match"]
       ELSE IF ~train.sender
       THEN train' = [train EXCEPT !.pc = "ended"]
       ELSE /\ ~WaitsForMessage
            /\ train' = [train EXCEPT !.message = None, !.pc = "match"]
    /\ UNCHANGED not_train

\* train_loop.rs:119-141: Paused sets is_paused; Eval emits EvalResult when
\* there is an eval scene.
MatchMessage ==
    /\ train.pc = "match"
    /\ train.message # None
    /\ train' = IF train.message[1] = "Paused"
                THEN [train EXCEPT !.is_paused = train.message[2],
                                   !.since = {},
                                   !.message = None,
                                   !.pc = "poll"]
                ELSE [train EXCEPT !.since = IF train.eval_scene
                                             THEN @ \cup {"EvalResult"} ELSE @,
                                   !.message = None,
                                   !.pc = "poll"]
    /\ UNCHANGED not_train

\* train_loop.rs:143-171: with no message, one training step; Splats and
\* TrainStep are emitted, or the `?` on the step ends the stream.
TrainStep ==
    /\ train.pc = "match"
    /\ train.message = None
    /\ \E ok \in BOOLEAN :
           train' = IF ok
                    THEN [train EXCEPT !.since = @ \cup {"TrainStep"}, !.pc = "poll"]
                    ELSE [train EXCEPT !.pc = "ended"]
    /\ UNCHANGED not_train

\* A step of the task that runs train_loop.
train_loop == LoadDataset \/ Receive \/ MatchMessage \/ TrainStep

NextTrain ==
    \/ TogglePause
    \/ RequestEval
    \/ DropSender
    \/ train_loop

SpecTrain == InitTrain /\ [][NextTrain]_vars

\* The runtime keeps polling the task of train_loop.
SpecTrainFair == SpecTrain /\ WF_vars(train_loop)

----------------------------------------------------------------------------
(* odyexp-viewer: the application.  Control messages (LoadData, SaveSplats,  *)
(* ResetCamera) come from the embedding page or the top panel; a load runs   *)
(* process_loading_loop as a stream whose messages reach Viewer::update      *)
(* through a channel of capacity 1.                                          *)

\* app_context.rs:134-147, scene_panel.rs:51-62: a viewer that has loaded
\* nothing.
InitApp ==
    /\ NoCall
    /\ cap = NoCap /\ atom = NoAtom /\ train = NoTrain
    /\ app = [pc          |-> "running",
              stream      |-> "none",
              next_frame  |-> 0,
              chan        |-> <<>>,
              view_splats |-> 0,
              frame24     |-> 0,
              is_loading  |-> FALSE,
              err         |-> FALSE,
              camera      |-> "home",
              exported    |-> Uninit]

\* app_context.rs:253-257 on the context a: the index of the splat shown,
\* floor(frame * FPS) modulo the number of splats; the modulo panics when
\* there is none.
current_splats(a) ==
    IF a.view_splats = 0 THEN Panic ELSE a.frame24 % a.view_splats

\* viewer.rs:143 and app_context.rs:255: floor((frame - 0.5) * FPS) as usize,
\* the cast of a negative float giving 0.
Frame24Of(frame) == Max(FPS * frame - FPS \div 2, 0)

\* app_context.rs:167-205, 240-242: a load replaces the receiver and starts a
\* new stream; what the old stream had sent goes with the old receiver.
ControlLoadData ==
    /\ app.pc = "running"
    /\ app' = [app EXCEPT !.stream = "NewSource", !.chan = <<>>, !.next_frame = 0]
    /\ UNCHANGED not_app

\* app_context.rs:243-245: SaveSplats clones current_splats() for the export.
ControlSaveSplats ==
    /\ app.pc = "running"
    /\ app' = IF current_splats(app) = Panic
              THEN [app EXCEPT !.pc = "panicked"]
              ELSE [app EXCEPT !.exported = current_splats(app)]
    /\ UNCHANGED not_app

\* app_context.rs:246-248, 150-153
ControlResetCamera ==
    /\ app.pc = "running"
    /\ app' = [app EXCEPT !.camera = "home"]
    /\ UNCHANGED not_app

\* scene_panel.rs:179-183: the user moves the camera.
HandleUserInput ==
    /\ app.pc = "running"
    /\ app' = [app EXCEPT !.camera = "moved"]
    /\ UNCHANGED not_app

\* app_context.rs:173, 198: the channel to the UI holds
\* VIEW_CHANNEL_CAPACITY messages; the stream waits while it is full.
CanEmit == app.pc = "running" /\ Len(app.chan) < VIEW_CHANNEL_CAPACITY

\* The stream emits message and goes on at `then`.
Emit(message, then) == [app EXCEPT !.chan = Append(@, message), !.stream = then]

\* load.rs:71
EmitNewSource ==
    /\ app.stream = "NewSource"
    /\ CanEmit
    /\ app' = Emit(<< "NewSource" >>, "read")
    /\ UNCHANGED not_app

\* load.rs:75-108: the source is read and peeked: a ply starts loading,
\* anything else (or a failed read) ends the stream with an error.
ReadSource ==
    /\ app.stream = "read"
    /\ CanEmit
    /\ \/ app' = Emit(<< "StartLoading" >>, "ply")
       \/ app' = Emit(<< "Error" >>, "ended")
    /\ UNCHANGED not_app

\* The frames the ply stream can give next: the one being loaded again, or
\* the one after it.
NextFrames == { f \in {app.next_frame - 1, app.next_frame} : 0 <= f /\ f < MaxFrames }

\* load.rs:92-103: the next item of the ply stream: a splat, a parse error,
\* or the end.
NextSplat ==
    /\ app.stream = "ply"
    /\ CanEmit
    /\ \/ \E frame \in NextFrames :
              app' = [Emit(<< "ViewSplats", frame >>, "ply") EXCEPT !.next_frame = frame + 1]
       \/ app' = Emit(<< "Error" >>, "ended")
       \/ app' = Emit(<< "DoneLoading" >>, "ended")
    /\ UNCHANGED not_app

\* viewer.rs:132-150 on the context a: ViewSplats truncates to the frame and
\* pushes the splat, StartLoading empties view_splats.
OnViewerMessage(a, message) ==
    CASE message[1] = "ViewSplats" ->
             [a EXCEPT !.view_splats = Min(@, message[2]) + 1,
                       !.frame24 = Frame24Of(message[2])]
      [] message[1] = "StartLoading" -> [a EXCEPT !.view_splats = 0]
      [] OTHER -> a

\* scene_panel.rs:133-157
ScenePanelOnMessage(a, message) ==
    CASE message[1] = "NewSource"    -> [a EXCEPT !.is_loading = FALSE, !.err = FALSE]
      [] message[1] = "DoneLoading"  -> [a EXCEPT !.is_loading = FALSE]
      [] message[1] = "StartLoading" -> [a EXCEPT !.is_loading = TRUE]
      [] message[1] = "Error"        -> [a EXCEPT !.err = TRUE]
      [] OTHER -> a

\* scene_panel.rs:198-203: the panel asks for the current splat only when
\* there is one.
ScenePanelShow(a) ==
    IF a.view_splats # 0 /\ current_splats(a) = Panic
    THEN [a EXCEPT !.pc = "panicked"]
    ELSE a

\* viewer.rs:124-162: a frame of the UI that finds a message: the context and
\* the panels handle it, then the panels are shown.
Update ==
    /\ app.pc = "running"
    /\ app.chan # <<>>
    /\ app' = ScenePanelShow(
                  ScenePanelOnMessage(
                      OnViewerMessage([app EXCEPT !.chan = Tail(@)], Head(app.chan)),
                      Head(app.chan)))
    /\ UNCHANGED not_app

\* A step of the loading stream.
process_loading_loop == EmitNewSource \/ ReadSource \/ NextSplat

NextApp ==
    \/ ControlLoadData
    \/ ControlSaveSplats
    \/ ControlResetCamera
    \/ HandleUserInput
    \/ process_loading_loop
    \/ Update

SpecApp == InitApp /\ [][NextApp]_vars

\* The runtime keeps polling the loading task and the UI keeps drawing frames.
SpecAppFair == SpecApp /\ WF_vars(process_loading_loop) /\ WF_vars(Update)

----------------------------------------------------------------------------
(* Properties *)

Submitted(kernel) == \E k \in DOMAIN dispatched : dispatched[k] = kernel

PosOf(kernel) == CHOOSE k \in DOMAIN dispatched : dispatched[k] = kernel

ShValid == sh_coeffs_dim \in {1, 4, 9, 16, 25}

ZeroArea == img_size[1] = 0 \/ img_size[2] = 0

DepthOfCompact(c) == prims[global_from_compact_gid[c]].depth2

BinLen(t) == tile_bins[t][2] - tile_bins[t][1]

RECURSIVE SumBinLen(_)
SumBinLen(n) == IF n = 0 THEN 0 ELSE BinLen(n - 1) + SumBinLen(n - 1)

\* C1: after the depth sort, for all compact ids i < j < num_visible the depth of
\* primitive global_from_compact_gid[i] is at most that of global_from_compact_gid[j].
C1_DepthSorted ==
    Submitted("DepthSort") =>
        \A i, j \in 0 .. num_visible - 1 :
            i < j => DepthOfCompact(i) <= DepthOfCompact(j)

\* C1 witness: the sort has run on at least two visible primitives that the
\* projection threads had stored out of depth order.
C1_Witness ==
    /\ Submitted("DepthSort")
    /\ \E i, j \in 0 .. num_visible - 1 :
           i < j /\ F32Value2(depths[i]) > F32Value2(depths[j])

\* C2: after GetTileBinEdges the per-tile [start, end) ranges partition the sorted
\* intersection array exactly: they lie inside it, are pairwise non-overlapping,
\* cover every position (so the non-empty ones are contiguous), their lengths sum
\* to num_intersections, every entry inside tile t's range has tile id t, and a
\* tile with no intersection has start = end.
C2_BinsPartition ==
    Submitted("GetTileBinEdges") =>
        /\ \A t \in Tiles :
               /\ 0 <= tile_bins[t][1]
               /\ tile_bins[t][1] <= tile_bins[t][2]
               /\ tile_bins[t][2] <= num_intersections
        /\ \A t, u \in Tiles :
               (t # u /\ BinLen(t) > 0 /\ BinLen(u) > 0) =>
                   (tile_bins[t][2] <= tile_bins[u][1] \/ tile_bins[u][2] <= tile_bins[t][1])
        /\ \A i \in 0 .. num_intersections - 1 :
               \E t \in Tiles : tile_bins[t][1] <= i /\ i < tile_bins[t][2]
        /\ SumBinLen(num_tiles) = num_intersections
        /\ \A t \in Tiles :
               \A i \in tile_bins[t][1] .. tile_bins[t][2] - 1 :
                   I32Value(tile_id_from_isect[i]) = t
        /\ \A t \in Tiles :
               (\A i \in 0 .. num_intersections - 1 : I32Value(tile_id_from_isect[i]) # t)
                   => tile_bins[t][1] = tile_bins[t][2]

\* C2 witness: bins were computed with two non-empty tiles and one empty tile.
C2_Witness ==
    /\ Submitted("GetTileBinEdges")
    /\ \E t, u, v \in Tiles :
           /\ t # u
           /\ BinLen(t) > 0 /\ BinLen(u) > 0
           /\ BinLen(v) = 0 /\ tile_bins[u][1] > 0

\* C3: after the tile-id sort, within every tile's bin range the compact ids are
\* ascending, so the run is ordered front to back by depth.
C3_BinsDepthOrdered ==
    Submitted("GetTileBinEdges") =>
        \A t \in Tiles :
            \A i, j \in tile_bins[t][1] .. tile_bins[t][2] - 1 :
                i < j =>
                    /\ compact_gid_from_isect[i] < compact_gid_from_isect[j]
                    /\ DepthOfCompact(compact_gid_from_isect[i])
                           <= DepthOfCompact(compact_gid_from_isect[j])

\* C3 witness: some tile's run holds two splats of different depth, and the
\* sorted array has two tiles with entries.
C3_Witness ==
    /\ Submitted("GetTileBinEdges")
    /\ \E t, u \in Tiles :
           /\ t # u
           /\ BinLen(u) > 0
           /\ BinLen(t) >= 2
           /\ DepthOfCompact(compact_gid_from_isect[tile_bins[t][1]])
                  < DepthOfCompact(compact_gid_from_isect[tile_bins[t][1] + 1])

\* C4: two forward calls on identical primitives, camera and image size yield
\* identical images, whatever the order in which the projection threads take
\* their slots, equal depth keys included.
C4_Deterministic ==
    (call_no = 2 /\ pc = "returned") => out_img = prev_img

\* C5: in float mode, at every pixel the walk keeps T in [0, 1] at every step, the
\* alpha written is in [0, 1], and it equals 1 minus the transmittance over exactly
\* the splats that were walked (the bin start up to the terminal index).
C5_AlphaIsOneMinusT ==
    (Submitted("Rasterize") /\ ~raster_u32) =>
        \A p \in Pixels :
            /\ \A k \in DOMAIN raster_T[p] : 0 <= raster_T[p][k] /\ raster_T[p][k] <= TDen
            /\ 0 <= out_img[p].alpha /\ out_img[p].alpha <= TDen
            /\ Len(raster_T[p]) = final_index[p] - tile_bins[TileOfPixel(p)][1]
            /\ out_img[p].alpha =
                   TDen - TransmittanceOver(p, tile_bins[TileOfPixel(p)][1], final_index[p])

\* C5 witness: a float render in which some pixel walked two splats and ended
\* partly transparent.
C5_Witness ==
    /\ Submitted("Rasterize")
    /\ ~raster_u32
    /\ \E p \in Pixels :
           /\ Len(raster_T[p]) >= 2
           /\ 0 < out_img[p].alpha /\ out_img[p].alpha < TDen

\* C6: the depth sort and the prefix sum complete before the tile mapper starts,
\* and the forward rasterizer, with its terminal-index writes, completes before
\* the backward rasterizer starts.
C6_StageOrder ==
    /\ (pc = "MapGaussiansToIntersect" \/ Submitted("MapGaussiansToIntersect")) =>
           /\ Submitted("DepthSort")
           /\ Submitted("PrefixSum")
           /\ pending = {}
    /\ Submitted("MapGaussiansToIntersect") =>
           /\ PosOf("DepthSort") < PosOf("MapGaussiansToIntersect")
           /\ PosOf("PrefixSum") < PosOf("MapGaussiansToIntersect")
    /\ Submitted("RasterizeBackwards") =>
           /\ Submitted("Rasterize")
           /\ PosOf("Rasterize") < PosOf("RasterizeBackwards")
           /\ DOMAIN final_index = Pixels

\* C6 witness: a backward pass has started on a scene with intersections.
C6_Witness ==
    /\ Submitted("RasterizeBackwards")
    /\ num_intersections > 0

\* C7: with at least one primitive and none visible the forward call does not
\* error: every stage runs, num_intersections is 0, every tile bin is empty and
\* the image is produced.
C7_ZeroVisible ==
    (num_points >= 1 /\ VisibleGids = {} /\ ShValid) =>
        /\ pc # "panicked"
        /\ (pc \notin {"returned"}) => ENABLED Forward
        /\ Submitted("PrefixSum") => num_intersections = 0
        /\ Submitted("GetTileBinEdges") =>
               \A t \in Tiles : tile_bins[t][1] = tile_bins[t][2]
        /\ pc = "returned" =>
               /\ num_visible = 0
               /\ Submitted("Rasterize")
               /\ DOMAIN out_img = Pixels

\* C7 witness: a call on a non-empty image has returned with every primitive
\* culled, one of them for its depth.
C7_Witness ==
    /\ pc = "returned"
    /\ num_points >= 2
    /\ VisibleGids = {}
    /\ ~ZeroArea
    /\ \E g \in DOMAIN prims : prims[g].depth2 <= 0

\* C8: a call with zero primitives or a zero-area image fails before any kernel
\* is submitted and before any device buffer is created.
C8_FailFast ==
    (num_points = 0 \/ ZeroArea) =>
        /\ dispatched = <<>>
        /\ buffers = {}
        /\ pc \notin {"Return", "returned"}

\* C9: a call whose SH coefficient count is not 1, 4, 9, 16 or 25 fails before
\* the uniform buffer is created and before any kernel is submitted, on both
\* backends.
C9_ShFailFast ==
    ~ShValid =>
        /\ pc \in {"Setup", "panicked"}
        /\ dispatched = <<>>
        /\ buffers = {}
        /\ ~bw_state.saved

\* C9 witness: the autodiff backend, with tracked inputs, has panicked on a bad
\* SH coefficient count.
C9_Witness ==
    /\ ~ShValid
    /\ pc = "panicked"
    /\ backend = "autodiff"
    /\ tracked # {}
    /\ num_points >= 1

\* C10: every backward pass reads a terminal index that the forward rasterizer of
\* the same call populated, and the terminal index is populated exactly in float
\* mode.
C10_TerminalIndexPopulated ==
    /\ Submitted("RasterizeBackwards") => \A p \in Pixels : bw_read[p] # Uninit
    /\ Submitted("Rasterize") =>
           \A p \in Pixels : (final_index[p] # Uninit) <=> ~raster_u32

\* The gradient buffers backward hands back, one per input.
ReturnedGrads == {"v_means", "v_scales", "v_quats", "v_coeffs", "v_opacities", "v_xys_global"}

ZeroCoeffs == [k \in 1 .. sh_coeffs_for_degree(sh_degree) |-> 0]

ZeroRowOf(b) == IF b = "v_coeffs" THEN ZeroCoeffs ELSE 0

\* C11: every gradient buffer backward returns has one row per input primitive
\* (v_coeffs one entry per SH coefficient in each row), and the row of every
\* primitive that was not visible in the forward pass is exactly zero; when
\* backward has completed all six buffers exist.
C11_DenseZeroGrads ==
    /\ \A b \in ReturnedGrads :
           grads[b] # <<>> => DOMAIN grads[b] = 0 .. num_points - 1
    /\ (\E b \in ReturnedGrads : grads[b] # <<>>) =>
           \A g \in DOMAIN prims \ VisibleGids :
               \A b \in ReturnedGrads :
                   grads[b] # <<>> => grads[b][g] = ZeroRowOf(b)
    /\ grads["v_coeffs"] # <<>> =>
           \A g \in DOMAIN prims :
               DOMAIN grads["v_coeffs"][g] = 1 .. sh_coeffs_for_degree(sh_degree)
    /\ pc = "backward done" => \A b \in ReturnedGrads : grads[b] # <<>>

\* C11 witness: backward has completed on a scene with a culled primitive and a
\* visible one whose position gradient is not zero.
C11_Witness ==
    /\ pc = "backward done"
    /\ \E g, h \in DOMAIN prims :
           /\ g \notin VisibleGids
           /\ h \in VisibleGids
           /\ grads["v_means"][h] # 0
           /\ grads["v_coeffs"][h] # ZeroCoeffs

\* Visible primitive g has a non-zero alpha at pixel p.
CoversPixel(g, p) == AlphaAt(ProjectedSplatOf(g), p) > 0

\* C12: in float mode, a pixel at which no visible primitive has a non-zero
\* alpha is written with RGB = 0 and alpha = 0; in particular, when every
\* primitive is culled (all at the camera position, depth not > 0) the whole
\* image is transparent black.
C12_TransparentWhenNothingContributes ==
    (Submitted("Rasterize") /\ ~raster_u32) =>
        \A p \in Pixels :
            (\A g \in VisibleGids : ~CoversPixel(g, p)) =>
                /\ out_img[p].rgb = 0
                /\ out_img[p].alpha = 0

\* C12 witness: the call of the test has returned: several primitives, all at
\* the camera position, a 32 x 32 float image, the autodiff backend.
C12_Witness ==
    /\ pc = "returned"
    /\ num_points >= 2
    /\ \A g \in DOMAIN prims : prims[g].depth2 = 0
    /\ img_size = <<32, 32>>
    /\ backend = "autodiff"
    /\ DOMAIN out_img = Pixels

ZeroOpacity(g) == Sigmoid(prims[g].logit) = 0

DegenerateScale(g) ==
    prims[g].bbox[1] = prims[g].bbox[3] \/ prims[g].bbox[2] = prims[g].bbox[4]

\* Sorted intersections of pixel p's bin that the forward walk went through.
WalkedAt(p) == tile_bins[TileOfPixel(p)][1] .. final_index[p] - 1

\* C13: a primitive with zero opacity or a degenerate scale has alpha 0 at every
\* pixel, so every walk that passes it leaves the transmittance (and with it the
\* colour and the alpha of the pixel) as it was, and after backward its row is
\* zero in every gradient buffer.
C13_NoContributionNoGradient ==
    \A g \in DOMAIN prims :
        (ZeroOpacity(g) \/ DegenerateScale(g)) =>
            /\ (Submitted("Rasterize") /\ ~raster_u32) =>
                   \A p \in Pixels :
                       \A i \in WalkedAt(p) :
                           global_from_compact_gid[compact_gid_from_isect[i]] = g =>
                               LET k == i - tile_bins[TileOfPixel(p)][1] + 1
                               IN  /\ AlphaAt(projected_splats[compact_gid_from_isect[i]], p) = 0
                                   /\ raster_T[p][k] = IF k = 1 THEN TDen ELSE raster_T[p][k - 1]
            /\ pc = "backward done" =>
                   \A b \in ReturnedGrads : grads[b][g] = ZeroRowOf(b)

\* C13 witness: backward has completed on a scene in which some pixel's walk
\* went through a zero-opacity primitive and then through a primitive that
\* received a non-zero gradient.
C13_Witness ==
    /\ pc = "backward done"
    /\ \E g, h \in DOMAIN prims :
           /\ ZeroOpacity(g)
           /\ grads["v_opacities"][h] # 0
           /\ \E p \in Pixels :
                  \E i, j \in WalkedAt(p) :
                      /\ i < j
                      /\ global_from_compact_gid[compact_gid_from_isect[i]] = g
                      /\ global_from_compact_gid[compact_gid_from_isect[j]] = h

\* The gradient buffer each input is to receive.
MatchingBuffer ==
    [input \in InputNames |->
        CASE input = "means"       -> "v_means"
          [] input = "xy_dummy"    -> "v_xys_global"
          [] input = "log_scales"  -> "v_scales"
          [] input = "quats"       -> "v_quats"
          [] input = "sh_coeffs"   -> "v_coeffs"
          [] input = "raw_opacity" -> "v_opacities"]

\* C14: when backward has completed, an input has a registered gradient exactly
\* when its node requires one, the buffer registered for it is the matching one,
\* and the buffer registered for the xy dummy is indexed by global id: the row of
\* a visible primitive is the local screen-xy gradient of its compact id.
\* Nothing is registered before that.
C14_RegistersMatchingGrads ==
    /\ pc # "backward done" => registered = {}
    /\ pc = "backward done" =>
           /\ \A input \in InputNames :
                  (\E b \in GradNames : <<input, b>> \in registered) <=> input \in tracked
           /\ \A r \in registered :
                  /\ r[2] = MatchingBuffer[r[1]]
                  /\ DOMAIN grads[r[2]] = 0 .. num_points - 1
           /\ \A r \in registered :
                  r[1] = "xy_dummy" =>
                      \A c \in 0 .. num_visible - 1 :
                          grads[r[2]][global_from_compact_gid[c]] = grads["v_xys_local"][c]

\* C14 witness: backward has completed with all six inputs requiring a gradient,
\* on a scene whose compact order differs from the global order and whose local
\* xy gradients differ.
C14_Witness ==
    /\ pc = "backward done"
    /\ tracked = InputNames
    /\ \E c, d \in 0 .. num_visible - 1 :
           /\ c < d
           /\ global_from_compact_gid[c] > global_from_compact_gid[d]
           /\ grads["v_xys_local"][c] # grads["v_xys_local"][d]

WriterStages(b) == { w.stage : w \in { x \in writes : x.buf = b } }

\* The buffers two threads of one dispatch may write at the same location.
ManyWriterBuffers == {"uniforms_buffer", "v_xys_local", "v_conics", "v_colors"}

C16_NumIntersectionsIsTotal ==
    (Submitted("PrefixSum") /\ pc # "panicked") =>
        /\ num_intersections = SumTo(num_tiles_hit, num_points)
        /\ num_intersections = cum_tiles_hit[num_points - 1] + num_tiles_hit[num_points - 1]

\* The f restricted to its first n entries is a bijection onto the set S.
BijectionOnto(f, n, S) ==
    /\ \A i \in 0 .. n - 1 : f[i] \in S
    /\ \A i, j \in 0 .. n - 1 : i # j => f[i] # f[j]
    /\ \A g \in S : \E i \in 0 .. n - 1 : f[i] = g

SlotRange(c) == cum_tiles_hit[c] .. cum_tiles_hit[c] + num_tiles_hit[c] - 1

\* C18: when the tile mapper has run (and before the tile sort reorders its
\* output), every written slot lies in the slot range of the splat whose compact
\* id it carries and holds a tile id in [0, tile_count); the slot ranges of
\* distinct visible splats are disjoint, and together they are exactly
\* 0 .. num_intersections - 1.
C18_MapperSlotRanges ==
    (Submitted("MapGaussiansToIntersect") /\ ~Submitted("TileSort")) =>
        /\ \A s \in DOMAIN compact_gid_from_isect :
               compact_gid_from_isect[s] # Uninit =>
                   /\ compact_gid_from_isect[s] \in 0 .. num_visible - 1
                   /\ s \in SlotRange(compact_gid_from_isect[s])
                   /\ I32Value(tile_id_from_isect[s]) \in 0 .. num_tiles - 1
        /\ \A c, d \in 0 .. num_visible - 1 :
               c # d => SlotRange(c) \cap SlotRange(d) = {}
        /\ UNION { SlotRange(c) : c \in 0 .. num_visible - 1 } = 0 .. num_intersections - 1


\* C19: when the tile/splat pairs of a scene exceed the capacity of the
\* intersection buffers, the call completes without an error, the mapper
\* writes no slot outside the buffers and drops exactly the pairs beyond the
\* capacity, and the tile sort, the tile binning and the rasterizer index
\* only positions inside the buffers.
C19_OverflowStaysInsideBuffer ==
    (cap.pc = "done" /\ CapTotal > cap.len) =>
        /\ ~cap.error
        /\ cap.touched["MapGaussiansToIntersect"] < cap.len
        /\ cap.dropped = CapTotal - cap.len
        /\ \A st \in {"TileSort", "GetTileBinEdges", "Rasterize"} :
               cap.touched[st] < cap.len

\* C20: when num_points * tile_count is at most 128 * 65535, the buffers hold
\* num_intersections and every tile/splat pair of the scene: the mapper leaves
\* every slot of every visible splat's range written, inside the buffers.
C20_NoTruncationBelowClamp ==
    (/\ Submitted("PrefixSum")
     /\ pc # "panicked"
     /\ num_points * num_tiles <= MAX_ISECT_GROUPS * MAX_DISPATCH) =>
        /\ num_intersections <= max_intersects
        /\ SumTo(num_tiles_hit, num_points) <= max_intersects
        /\ (Submitted("MapGaussiansToIntersect") /\ ~Submitted("TileSort")) =>
               \A c \in 0 .. num_visible - 1 :
                   \A s \in SlotRange(c) :
                       /\ s \in DOMAIN compact_gid_from_isect
                       /\ compact_gid_from_isect[s] = c

\* Two or more visible splats fill the buffers exactly and the mapper has run.
C20_Witness ==
    /\ Submitted("MapGaussiansToIntersect")
    /\ ~Submitted("TileSort")
    /\ num_visible >= 2
    /\ num_points * num_tiles <= MAX_ISECT_GROUPS * MAX_DISPATCH
    /\ SumTo(num_tiles_hit, num_points) = max_intersects
    /\ \A s \in DOMAIN compact_gid_from_isect : compact_gid_from_isect[s] # Uninit

\* The least k with 2^k >= n, for n >= 1.
RECURSIVE CeilLog2From(_, _)
CeilLog2From(n, k) == IF Pow(2, k) >= n THEN k ELSE CeilLog2From(n, k + 1)

CeilLog2(n) == CeilLog2From(n, 0)

\* C21: for every tile count >= 1, the number of key bits given to the
\* intersection sort equals ceil(log2(tile_count)).
C21_SortBitsAreCeilLog2 ==
    (Submitted("TileSort") /\ num_tiles >= 1) => TileSortBits = CeilLog2(num_tiles)

\* C22: for every tile count >= 1, every tile id below the tile count is
\* smaller than 2^bits, so the sort key of a tile id is the tile id itself and
\* distinct tile ids have distinct keys; the keys the mapper wrote are such ids.
C22_SortBitsCoverTileIds ==
    (Submitted("MapGaussiansToIntersect") /\ num_tiles >= 1) =>
        /\ TileSortBits = U32_BITS - leading_zeros(num_tiles)
        /\ \A t \in Tiles :
               /\ t < Pow(2, TileSortBits)
               /\ MaskKey(I32Bits(t), TileSortBits) = I32Bits(t)
        /\ \A s \in DOMAIN tile_id_from_isect :
               tile_id_from_isect[s] # UninitWord =>
                   I32Value(tile_id_from_isect[s]) \in Tiles

\* C22 witness: the sort has run on a grid whose tile count is a power of two
\* above one, with intersections in its last tile.
C22_Witness ==
    /\ Submitted("TileSort")
    /\ num_tiles > 1
    /\ Pow(2, CeilLog2(num_tiles)) = num_tiles
    /\ \E s \in DOMAIN tile_id_from_isect :
           /\ tile_id_from_isect[s] # UninitWord
           /\ I32Value(tile_id_from_isect[s]) = num_tiles - 1

\* Transmittance of pixel p after the first k splats of its walk.
WalkT(p, k) == IF k = 0 THEN TDen ELSE raster_T[p][k]

\* The splat at the k-th place of pixel p's bin.
BinSplat(p, k) ==
    projected_splats[compact_gid_from_isect[tile_bins[TileOfPixel(p)][1] + k - 1]]

\* Colour that the first k splats of pixel p's bin give, each weighted by the
\* transmittance in front of it.
RECURSIVE ColourOfFirst(_, _)
ColourOfFirst(p, k) ==
    IF k = 0 THEN 0
    ELSE ColourOfFirst(p, k - 1)
           + ((WalkT(p, k - 1) * AlphaAt(BinSplat(p, k), p) * BinSplat(p, k).colour)
                \div AlphaDen)

\* C23: the forward walk of every pixel goes through its tile's bin front to
\* back from T = 1 and colour 0, applying T *= 1 - alpha at each splat; a splat
\* is walked only while T is not below the threshold, the walk stops before the
\* end of the bin only below the threshold, the colour is that of the walked
\* splats alone, and in float mode the recorded terminal index is the place
\* where the walk stopped (the end of the bin when it was exhausted).
C23_ForwardWalk ==
    Submitted("Rasterize") =>
        \A p \in Pixels :
            LET bin == tile_bins[TileOfPixel(p)]
                n   == Len(raster_T[p])
            IN  /\ n <= bin[2] - bin[1]
                /\ \A k \in 1 .. n :
                       /\ ~BelowThreshold(WalkT(p, k - 1))
                       /\ WalkT(p, k) =
                              (WalkT(p, k - 1) * (AlphaDen - AlphaAt(BinSplat(p, k), p)))
                                 \div AlphaDen
                /\ n < bin[2] - bin[1] => BelowThreshold(WalkT(p, n))
                /\ ~raster_u32 =>
                       /\ out_img[p].rgb = ColourOfFirst(p, n)
                       /\ out_img[p].alpha = TDen - WalkT(p, n)
                       /\ final_index[p] = bin[1] + n

\* C23 witness: a float render in which some pixel's walk stopped below the
\* threshold in front of a splat that covers the pixel with a colour.
C23_Witness ==
    /\ Submitted("Rasterize") /\ ~raster_u32
    /\ \E p \in Pixels :
           LET bin == tile_bins[TileOfPixel(p)]
               n   == Len(raster_T[p])
           IN  /\ n >= 1 /\ n < bin[2] - bin[1]
               /\ final_index[p] = bin[1] + n
               /\ AlphaAt(BinSplat(p, n + 1), p) > 0
               /\ BinSplat(p, n + 1).colour > 0

\* C24: at every pixel the backward rasterizer visits exactly the splats the
\* forward walk composited, last one first, from the recorded terminal index
\* down to the start of the tile's bin, and the transmittance it reconstructs
\* in front of each splat is the one the forward walk had in front of it.
C24_BackwardMirrorsForward ==
    Submitted("RasterizeBackwards") =>
        \A p \in Pixels :
            LET bin == tile_bins[TileOfPixel(p)]
                n   == Len(raster_T[p])
            IN  /\ Len(bw_walk[p]) = n
                /\ \A k \in 1 .. n :
                       /\ bw_walk[p][k].i = bin[1] + n - k
                       /\ bw_walk[p][k].T = WalkT(p, n - k)

\* The sum of the contributions of the first n threads.
RECURSIVE ContributionSum(_)
ContributionSum(n) == IF n = 0 THEN 0 ELSE atom.add[n - 1] + ContributionSum(n - 1)

\* What the threads have added so far, each contribution once.
RECURSIVE AppliedSum(_)
AppliedSum(n) ==
    IF n = 0 THEN 0
    ELSE atom.applied[n - 1] * atom.add[n - 1] + AppliedSum(n - 1)

AllDone == \A t \in AtomThreads : atom.at[t] = "done"

\* At every moment the accumulator holds zero plus the contributions added so
\* far, each one once, and a thread is done exactly when all its adds are in.
AtomNothingLost ==
    atom.pc = "adding" =>
        /\ atom.acc = AppliedSum(Cardinality(AtomThreads))
        /\ \A t \in AtomThreads :
               /\ atom.applied[t] <= 1
               /\ (atom.at[t] = "done") <=> (atom.applied[t] = 1)
        /\ AllDone => atom.acc = ContributionSum(Cardinality(AtomThreads))

\* C25: with the compare-and-swap emulation (and with the native add) no
\* contribution of the concurrent pixel threads is lost or applied twice, so
\* when all threads have finished the accumulator is the sum of all
\* contributions; under fair scheduling every thread finishes.
C25_AtomicAdd == []AtomNothingLost /\ <>[]AllDone

\* C25 witness: three threads have finished on the emulation after a
\* compare-and-swap of two of them had failed, and the accumulator holds the
\* sum of their contributions.
C25_Witness ==
    /\ atom.pc = "adding" /\ ~atom.hard_floats
    /\ Cardinality(AtomThreads) >= 3
    /\ AllDone
    /\ atom.acc = ContributionSum(Cardinality(AtomThreads))
    /\ Cardinality(atom.failed) >= 2

\* The image render_forward produced: what the rasterizer wrote for the scene.
ForwardImage ==
    [p \in Pixels |->
        IF raster_u32 THEN PackedPixel(RasterizePixel(p)) ELSE FloatPixel(RasterizePixel(p))]

\* C26: backward state exists only for a tracked call; an autodiff call with no
\* tracked input returns without any (no checkpoints, no aux bundle, no image
\* kept), a tracked one returns with the four checkpoints, the aux bundle and
\* the image saved, and in both cases the image returned is the one
\* render_forward produced.
C26_StateOnlyWhenTracked ==
    /\ bw_state.saved => IsTracked
    /\ pc = "returned" =>
           /\ tracked = {} => bw_state = NoState
           /\ IsTracked =>
                  /\ bw_state.saved
                  /\ bw_state.checkpoints = {"means", "log_scales", "quats", "raw_opacity"}
                  /\ bw_state.aux /\ bw_state.out_img
           /\ out_img = ForwardImage

\* C26 witness: an autodiff call with no tracked input has returned a
\* non-empty image with some covered pixel, and no state was kept.
C26_Witness ==
    /\ pc = "returned"
    /\ backend = "autodiff" /\ tracked = {}
    /\ bw_state = NoState
    /\ ~raster_u32
    /\ \E p \in Pixels : out_img[p].alpha > 0

PausedMeansNoTraining ==
    (train.pc # "none" /\ train.is_paused) =>
        /\ ~(train.pc = "match" /\ train.message = None)
        /\ "TrainStep" \notin train.since

\* An Eval message that the loop has taken is served, paused or not: with an
\* eval scene its result is emitted.
EvalServed ==
    [][(train.pc = "match" /\ train.message = Eval /\ train'.pc = "poll")
          => (train.eval_scene => "EvalResult" \in train'.since)]_vars

\* C28: from the moment Paused(true) is processed until Paused(false) is
\* processed no training step runs and no TrainStep is emitted; an Eval taken
\* meanwhile is served; and once the message channel is closed the loop ends,
\* paused or not.
C28_PauseStopsTraining ==
    /\ []PausedMeansNoTraining
    /\ EvalServed
    /\ (train.pc # "none" /\ ~train.sender) ~> (train.pc = "ended")

\* C28 witness: the loop is paused, has served an Eval since it was paused and
\* is waiting on the empty channel, which has just been closed.
C28_Witness ==
    /\ train.pc = "poll"
    /\ train.is_paused
    /\ "EvalResult" \in train.since
    /\ train.queue = <<>>
    /\ ~train.sender

\* C29: once the loading stream has ended, with DoneLoading or with an Error,
\* the scene panel's is_loading flag eventually becomes false (as long as the
\* application runs and no other load takes the place of this one).
C29_LoadingEnds ==
    (app.pc = "running" /\ app.stream = "ended")
        ~> (~app.is_loading \/ app.pc = "panicked" \/ app.stream # "ended")

\* C30: current_splats is never called with view_splats empty, whatever the
\* control messages and the viewer messages: nothing panics.
C30_CurrentSplatsNonEmpty == app.pc # "panicked"

============================================================================
